---------------------------- MODULE Spec2Model ----------------------------
(***************************************************************************)
(* Circuit algebra of QNET (qnet/algebra/circuit_algebra.py): circuit      *)
(* expressions, their smart constructors with the rewrite rules, block     *)
(* decomposition, channel permutations and feedback reduction.             *)
(*                                                                         *)
(* A circuit expression is a record with a fixed set of fields:            *)
(*   k   : the class ("sym", "slh", "cid1", "zero", "series", "concat",    *)
(*         "perm", "fb", "inv") or "err" for a raised exception            *)
(*   id  : identifier of a CircuitSymbol, or the exception class           *)
(*   n   : cdim of a CircuitSymbol                                         *)
(*   ops : operands of an Operation                                        *)
(*   p   : image tuple of a CPermutation (zero-based values)               *)
(*   o,i : out_index and in_index of a Feedback                            *)
(*   S,L,H : the matrices of an SLH (scalars are fractions <<num, den>>)   *)
(* Python tuples are sequences; index j of Python is index j+1 here.       *)
(***************************************************************************)
EXTENDS Integers, Sequences, FiniteSets, TLC

-----------------------------------------------------------------------------
(* Bounds of the model *)
\* largest channel dimension of a circuit the session constructs or keeps
MaxCdim == 3
\* largest number of expression nodes of a circuit the session keeps
MaxNodes == 3
\* largest total channel number of a block structure handed to a function
MaxSum == 5

-----------------------------------------------------------------------------
(* Python sequence helpers *)

RECURSIVE SumSeq(_)
SumSeq(s) == IF s = <<>> THEN 0 ELSE Head(s) + SumSeq(Tail(s))

Min2(a, b) == IF a < b THEN a ELSE b
Max2(a, b) == IF a > b THEN a ELSE b

\* s[:j]
Take(s, j) == SubSeq(s, 1, Min2(Max2(j, 0), Len(s)))
\* s[j:]
Drop(s, j) == SubSeq(s, Min2(Max2(j, 0), Len(s)) + 1, Len(s))
\* s[a:b]
Slice(s, a, b) == Take(Drop(s, a), Max2(b - a, 0))

RECURSIVE FlattenSeq(_)
FlattenSeq(ss) == IF ss = <<>> THEN <<>> ELSE Head(ss) \o FlattenSeq(Tail(ss))

Range0(n) == [j \in 1..n |-> j - 1]

SeqMin(s) == CHOOSE x \in {s[j] : j \in 1..Len(s)} :
                \A y \in {s[j] : j \in 1..Len(s)} : x <= y

\* sorted(range(Len(keys)), key = keys) for pairwise distinct keys
ArgSort(keys) ==
    [r \in 1..Len(keys) |->
        (CHOOSE j \in 1..Len(keys) :
            Cardinality({l \in 1..Len(keys) : keys[l] < keys[j]}) = r - 1) - 1]

-----------------------------------------------------------------------------
(* Nodes *)

Node(k, id, n, ops, p, o, i) ==
    [k |-> k, id |-> id, n |-> n, ops |-> ops, p |-> p, o |-> o, i |-> i,
     S |-> <<>>, L |-> <<>>, H |-> <<0, 1>>]

Err(name) == Node("err", name, 0, <<>>, <<>>, 0, 0)
IsErr(c) == c.k = "err"
CannotSimplify == Err("CannotSimplify")

CircuitSymbol(identifier, cd) == Node("sym", identifier, cd, <<>>, <<>>, 0, 0)
CIdentity == Node("cid1", "", 0, <<>>, <<>>, 0, 0)
CircuitZero == Node("zero", "", 0, <<>>, <<>>, 0, 0)
cid_1 == CIdentity

\* The class constructors (no simplification)
SeriesProduct(ops) == Node("series", "", 0, ops, <<>>, 0, 0)
Concatenation(ops) == Node("concat", "", 0, ops, <<>>, 0, 0)
CPermutation(perm) == Node("perm", "", 0, <<>>, perm, 0, 0)
Feedback(c, o, i) == Node("fb", "", 0, <<c>>, <<>>, o, i)
SeriesInverse(c) == Node("inv", "", 0, <<c>>, <<>>, 0, 0)

\* First exception among already evaluated arguments, in evaluation order
RECURSIVE FirstErr(_)
FirstErr(ops) ==
    IF ops = <<>> THEN CircuitZero
    ELSE IF IsErr(Head(ops)) THEN Head(ops) ELSE FirstErr(Tail(ops))

AnyErr(ops) == \E j \in 1..Len(ops) : IsErr(ops[j])

circuit_identity(n) ==
    IF n <= 0 THEN CircuitZero
    ELSE IF n = 1 THEN cid_1
    ELSE Concatenation([j \in 1..n |-> cid_1])

cid(n) == circuit_identity(n)

-----------------------------------------------------------------------------
(* qnet.algebra.permutations *)

\* every value within range, repeated values let through
check_permutation_range_only(perm) ==
    \A j \in 1..Len(perm) : perm[j] \in 0..(Len(perm) - 1)

check_permutation(perm) ==
    /\ \A j \in 1..Len(perm) : perm[j] \in 0..(Len(perm) - 1)
    /\ \A j, l \in 1..Len(perm) : j # l => perm[j] # perm[l]

\* perm.index(v)
IndexOf(perm, v) == (CHOOSE j \in 1..Len(perm) : perm[j] = v) - 1

invert_permutation(perm) == [j \in 1..Len(perm) |-> IndexOf(perm, j - 1)]

concatenate_permutations(a, b) == a \o [j \in 1..Len(b) |-> b[j] + Len(a)]

\* length of the first range 0..c-1 that perm maps onto itself
FirstBlockLen(perm) ==
    CHOOSE c \in 1..Len(perm) :
        /\ \A j \in 1..c : perm[j] < c
        /\ \A d \in 1..(c - 1) : \E j \in 1..d : perm[j] >= d

RECURSIVE permutation_to_block_permutations(_)
permutation_to_block_permutations(perm) ==
    IF perm = <<>> THEN <<>>
    ELSE LET c == FirstBlockLen(perm)
             rest == [j \in 1..(Len(perm) - c) |-> perm[j + c] - c]
         IN <<Take(perm, c)>> \o permutation_to_block_permutations(rest)

block_perm_and_perms_within_blocks(perm, bs) ==
    LET nblocks == Len(bs)
        offsets == [b \in 1..nblocks |-> SumSeq(Take(bs, b - 1))]
        images == [b \in 1..nblocks |->
                      Slice(perm, offsets[b], offsets[b] + bs[b])]
        images_mins == [b \in 1..nblocks |-> SeqMin(images[b])]
        block_perm_inv == ArgSort(images_mins)
    IN [block_perm |-> invert_permutation(block_perm_inv),
        perms_within_blocks |->
            [b \in 1..nblocks |-> invert_permutation(ArgSort(images[b]))]]

full_block_perm(block_permutation, bs) ==
    LET bp_inv == invert_permutation(block_permutation)
        offset(b) == SumSeq([j \in 1..block_permutation[b] |->
                                 bs[bp_inv[j] + 1]])
    IN FlattenSeq([b \in 1..Len(bs) |->
                      [t \in 1..bs[b] |-> offset(b) + t - 1]])

-----------------------------------------------------------------------------
(* map_signals: the result is [err |-> exception or "", perm |-> tuple] *)

\* map_signals with free_values.pop() in place of free_values.pop(0)
map_signals_free_from_the_back(mapping, n) ==
    LET K == DOMAIN mapping
        V == {mapping[x] : x \in K}
        free == (0..(n - 1)) \ V
        nonkeys == (0..(n - 1)) \ K
        \* free_values popped from the back
        freeAt(r) == CHOOSE v \in free :
                        Cardinality({w \in free : w > v}) = r
        rank(x) == Cardinality({y \in nonkeys : y < x})
    IN IF \E x \in K : mapping[x] >= n
            THEN [err |-> "ValueError", perm |-> <<>>]
       ELSE IF \/ \E x \in K : mapping[x] < 0
               \/ \E x, y \in K : x # y /\ mapping[x] = mapping[y]
            THEN [err |-> "ValueError", perm |-> <<>>]
       ELSE IF \E x \in K : x >= n
            THEN [err |-> "ValueError", perm |-> <<>>]
       ELSE IF \E x \in K : x < 0
            THEN [err |-> "IndexError", perm |-> <<>>]
       ELSE [err |-> "",
             perm |-> [j \in 1..n |->
                          IF (j - 1) \in K THEN mapping[j - 1]
                          ELSE freeAt(rank(j - 1))]]

map_signals(mapping, n) ==
    LET K == DOMAIN mapping
        V == {mapping[x] : x \in K}
        free == (0..(n - 1)) \ V
        nonkeys == (0..(n - 1)) \ K
        \* free_values in increasing order, popped from the front
        freeAt(r) == CHOOSE v \in free :
                        Cardinality({w \in free : w < v}) = r
        rank(x) == Cardinality({y \in nonkeys : y < x})
    IN IF \E x \in K : mapping[x] >= n
            THEN [err |-> "ValueError", perm |-> <<>>]
       ELSE IF \/ \E x \in K : mapping[x] < 0
               \/ \E x, y \in K : x # y /\ mapping[x] = mapping[y]
            THEN [err |-> "ValueError", perm |-> <<>>]
       ELSE IF \E x \in K : x >= n
            THEN [err |-> "ValueError", perm |-> <<>>]
       ELSE IF \E x \in K : x < 0
            THEN [err |-> "IndexError", perm |-> <<>>]
       ELSE [err |-> "",
             perm |-> [j \in 1..n |->
                          IF (j - 1) \in K THEN mapping[j - 1]
                          ELSE freeAt(rank(j - 1))]]

\* the dict {a: b}
Map1(a, b) == [x \in {a} |-> b]

-----------------------------------------------------------------------------
(* Scalars: exact fractions <<num, den>> in lowest terms with den >= 0;    *)
(* <<1, 0>> is sympy's zoo (1/0) and <<0, 0>> is nan.                      *)

RECURSIVE Gcd(_, _)
Gcd(a, b) == IF b = 0 THEN a ELSE Gcd(b, a % b)

Abs(a) == IF a < 0 THEN -a ELSE a

RNorm(a, b) ==
    IF b = 0 THEN <<IF a = 0 THEN 0 ELSE 1, 0>>
    ELSE LET g == Gcd(Abs(a), Abs(b))
             sg == IF b < 0 THEN -1 ELSE 1
         IN <<sg * (a \div g), sg * (b \div g)>>

RZero == <<0, 1>>
ROne == <<1, 1>>
RAdd(x, y) == RNorm(x[1] * y[2] + y[1] * x[2], x[2] * y[2])
RMul(x, y) == RNorm(x[1] * y[1], x[2] * y[2])
RNeg(x) == <<-x[1], x[2]>>
RSub(x, y) == RAdd(x, IF y[2] = 0 THEN y ELSE RNeg(y))
RInv(x) == RNorm(x[2], x[1])
IsFinite(x) == x[2] # 0
\* imaginary part of a real scalar
Im(x) == IF IsFinite(x) THEN RZero ELSE <<0, 0>>

RECURSIVE RSum(_)
RSum(s) == IF s = <<>> THEN RZero ELSE RAdd(Head(s), RSum(Tail(s)))

(* Matrices are sequences of rows *)
Rows(M) == Len(M)
Cols(M) == IF M = <<>> THEN 0 ELSE Len(M[1])
MatMul(A, B) ==
    [r \in 1..Rows(A) |-> [c \in 1..Cols(B) |->
        RSum([t \in 1..Cols(A) |-> RMul(A[r][t], B[t][c])])]]
MatAdd(A, B) ==
    [r \in 1..Rows(A) |-> [c \in 1..Cols(A) |-> RAdd(A[r][c], B[r][c])]]
MatScale(x, A) ==
    [r \in 1..Rows(A) |-> [c \in 1..Cols(A) |-> RMul(x, A[r][c])]]
MatNeg(A) == [r \in 1..Rows(A) |-> [c \in 1..Cols(A) |-> RNeg(A[r][c])]]
\* adjoint of a real matrix
MatAdjoint(A) == [c \in 1..Cols(A) |-> [r \in 1..Rows(A) |-> A[r][c]]]
\* A[r0:r1, c0:c1]
SubMat(A, r0, r1, c0, c1) ==
    [r \in 1..(r1 - r0) |-> [c \in 1..(c1 - c0) |-> A[r0 + r][c0 + c]]]
zerosm(nr, nc) == [r \in 1..nr |-> [c \in 1..nc |-> RZero]]
block_matrix(A, B, C, D) ==
    [r \in 1..Rows(A) |-> A[r] \o B[r]] \o [r \in 1..Rows(C) |-> C[r] \o D[r]]
vstackm(A, B) == A \o B
permutation_matrix(perm) ==
    [r \in 1..Len(perm) |-> [c \in 1..Len(perm) |->
        IF perm[c] = r - 1 THEN ROne ELSE RZero]]

-----------------------------------------------------------------------------
(* SLH *)

\* SLH.__init__ without the comparison of the row counts
SLH_unchecked(S, L, H) ==
    [k |-> "slh", id |-> "", n |-> 0, ops |-> <<>>, p |-> <<>>,
     o |-> 0, i |-> 0, S |-> S, L |-> L, H |-> H]

\* SLH.__init__
SLH(S, L, H) ==
    IF Rows(S) # Rows(L) THEN Err("ValueError")
    ELSE [k |-> "slh", id |-> "", n |-> 0, ops |-> <<>>, p |-> <<>>,
          o |-> 0, i |-> 0, S |-> S, L |-> L, H |-> H]

series_with_slh(a, b) ==
    LET new_S == MatMul(a.S, b.S)
        new_L == MatAdd(MatMul(a.S, b.L), a.L)
        delta == MatMul(MatMul(MatAdjoint(a.L), a.S), b.L)
        \* a product over zero channels is the 1 x 1 zero matrix
        delta00 == IF Rows(a.L) = 0 THEN RZero ELSE Im(delta[1][1])
        new_H == RAdd(RAdd(a.H, b.H), delta00)
    IN SLH(new_S, new_L, new_H)

\* the first SLH alone, the channels of the second left out
concatenate_slh_first_only(a, b) == a

concatenate_slh(a, b) ==
    LET new_S == block_matrix(a.S, zerosm(Rows(a.S), Cols(b.S)),
                              zerosm(Rows(b.S), Cols(a.S)), b.S)
        new_L == vstackm(a.L, b.L)
        new_H == RAdd(a.H, b.H)
    IN SLH(new_S, new_L, new_H)

SLH_series_inverse(a) ==
    SLH(MatAdjoint(a.S), MatNeg(MatMul(MatAdjoint(a.S), a.L)), RNeg(a.H))

\* the closed form at the end of SLH._feedback, for out_index = in_index = n
SLH_feedback_last(a) ==
    LET n == Rows(a.S) - 1
        one_minus_Snn == RSub(ROne, a.S[n + 1][n + 1])
        one_minus_Snn_inv == RInv(one_minus_Snn)
        new_S == MatAdd(SubMat(a.S, 0, n, 0, n),
                        MatMul(MatScale(one_minus_Snn_inv,
                                        SubMat(a.S, 0, n, n, n + 1)),
                               SubMat(a.S, n, n + 1, 0, n)))
        new_L == MatAdd(SubMat(a.L, 0, n, 0, 1),
                        MatScale(RMul(one_minus_Snn_inv, a.L[n + 1][1]),
                                 SubMat(a.S, 0, n, n, n + 1)))
        dH == MatScale(RMul(one_minus_Snn_inv, a.L[n + 1][1]),
                       MatMul(MatAdjoint(SubMat(a.L, 0, n, 0, 1)),
                              SubMat(a.S, 0, n, n, n + 1)))
        delta_H == IF n = 0 THEN RZero ELSE Im(dH[1][1])
    IN IF n < 0 THEN Err("IndexError")
       ELSE SLH(new_S, new_L, RAdd(a.H, delta_H))

-----------------------------------------------------------------------------
(* Circuit properties *)

\* A call of a function or method of the module, or of a create classmethod,
\* resolved by its name; the functions are mutually recursive.
RECURSIVE Circuit_method(_, _)

RECURSIVE cdim(_)
cdim(c) ==
    CASE c.k = "sym" -> c.n
      [] c.k = "slh" -> Rows(c.S)
      [] c.k = "cid1" -> 1
      [] c.k = "zero" -> 0
      [] c.k = "series" -> cdim(c.ops[1])
      [] c.k = "concat" -> SumSeq([j \in 1..Len(c.ops) |-> cdim(c.ops[j])])
      [] c.k = "perm" -> Len(c.p)
      [] c.k = "fb" -> cdim(c.ops[1]) - 1
      [] c.k = "inv" -> cdim(c.ops[1])
      [] OTHER -> 0

block_perms(c) == permutation_to_block_permutations(c.p)

\* Circuit.block_structure
block_structure(c) == Circuit_method("block_structure", <<c>>)

\* self._block_structure: the _block_structure of each class
_block_structure(c) ==
    CASE c.k = "concat" ->
            FlattenSeq([j \in 1..Len(c.ops) |-> block_structure(c.ops[j])])
      [] c.k = "perm" ->
            [j \in 1..Len(block_perms(c)) |-> Len(block_perms(c)[j])]
      [] OTHER -> <<cdim(c)>>

\* the while loop of Circuit.index_in_block: the final value of i
RECURSIVE index_in_block_loop(_, _, _, _)
index_in_block_loop(struct, channel_index, n, i) ==
    IF SumSeq(Take(struct, i)) <= channel_index /\ i < n
    THEN index_in_block_loop(struct, channel_index, n, i + 1)
    ELSE i

\* the channel taken as an index into the first block, without the walk
index_in_block_no_walk(c, channel_index) ==
    [err |-> "", index |-> channel_index, block |-> 0]

\* index_in_block without the subtraction of the preceding blocks
index_in_block_global_index(c, channel_index) ==
    LET struct == block_structure(c)
        i == index_in_block_loop(struct, channel_index, cdim(c), 1)
    IN IF channel_index < 0 \/ channel_index >= cdim(c)
           THEN [err |-> "ValueError", index |-> 0, block |-> 0]
       ELSE [err |-> "", index |-> channel_index,
             block |-> IF Len(struct) = 1 THEN 0 ELSE i - 1]

\* Circuit.index_in_block: [err, index, block], block zero-based
index_in_block(c, channel_index) ==
    LET struct == block_structure(c)
        i == index_in_block_loop(struct, channel_index, cdim(c), 1)
        block_index == i - 1
    IN IF channel_index < 0 \/ channel_index >= cdim(c)
           THEN [err |-> "ValueError", index |-> 0, block |-> 0]
       ELSE IF Len(struct) = 1
           THEN [err |-> "", index |-> channel_index, block |-> 0]
       ELSE [err |-> "",
             index |-> channel_index - SumSeq(Take(struct, block_index)),
             block |-> block_index]

\* the while loop of get_common_block_structure: <<lsum, i, j>> at the break
RECURSIVE common_prefix_loop(_, _, _, _)
common_prefix_loop(lhs_bs, rhs_bs, i, j) ==
    LET lsum == SumSeq(Take(lhs_bs, i))
        rsum == SumSeq(Take(rhs_bs, j))
    IN IF lsum < rsum THEN common_prefix_loop(lhs_bs, rhs_bs, i + 1, j)
       ELSE IF rsum < lsum THEN common_prefix_loop(lhs_bs, rhs_bs, i, j + 1)
       ELSE <<lsum, i, j>>

\* get_common_block_structure with the whole channel range as the one block
get_common_block_structure_one_block(lhs_bs, rhs_bs) ==
    IF SumSeq(lhs_bs) # SumSeq(rhs_bs) THEN Err("AlgebraError")
    ELSE IF Len(lhs_bs) = 0 /\ Len(rhs_bs) = 0 THEN <<>>
    ELSE <<SumSeq(lhs_bs)>>

RECURSIVE get_common_block_structure(_, _)
get_common_block_structure(lhs_bs, rhs_bs) ==
    IF SumSeq(lhs_bs) # SumSeq(rhs_bs) THEN Err("AlgebraError")
    ELSE IF Len(lhs_bs) = 0 /\ Len(rhs_bs) = 0 THEN <<>>
    ELSE LET brk == common_prefix_loop(lhs_bs, rhs_bs, 1, 1)
         IN <<brk[1]>> \o get_common_block_structure(Drop(lhs_bs, brk[2]),
                                                     Drop(rhs_bs, brk[3]))

-----------------------------------------------------------------------------
(* Constructors and methods.  Every operator returns a circuit, or an      *)
(* "err" node for the exception the call raises.                           *)

RECURSIVE match_replace_binary_ops(_, _), match_replace_binary_combine(_, _, _)

\* SeriesProduct.create and Concatenation.create on an operand tuple
SeriesProduct_create(ops) == Circuit_method("SeriesProduct.create", <<ops>>)
Concatenation_create(ops) == Circuit_method("Concatenation.create", <<ops>>)
\* Feedback.create(circuit, out_index, in_index)
Feedback_create(circuit, out_index, in_index) ==
    Circuit_method("Feedback.create", <<circuit, out_index, in_index>>)
\* Circuit.get_blocks: the blocks, or a single "err" node
get_blocks(c, bs) == Circuit_method("get_blocks", <<c, bs>>)
\* Circuit.series_inverse
series_inverse(c) == Circuit_method("series_inverse", <<c>>)
\* Circuit.feedback with both indices given
feedback(c, out_index, in_index) ==
    Circuit_method("feedback", <<c, out_index, in_index>>)
\* Circuit.toSLH
toSLH(c) == Circuit_method("toSLH", <<c>>)

\* the node for every valid image tuple, the identity included
CPermutation_create_keep_identity(perm) ==
    IF ~check_permutation(perm) THEN Err("BadPermutationError")
    ELSE CPermutation(perm)

CPermutation_create(perm) ==
    IF ~check_permutation(perm) THEN Err("BadPermutationError")
    ELSE IF perm = Range0(Len(perm)) THEN cid(Len(perm))
    ELSE CPermutation(perm)

map_signals_circuit(mapping, n) ==
    LET m == map_signals(mapping, n)
    IN IF m.err # "" THEN Err(m.err) ELSE CPermutation_create(m.perm)

\* the composition taken in the other order, B after A
series_with_permutation_swapped(A, B) ==
    CPermutation_create([j \in 1..Len(A.p) |-> B.p[A.p[j] + 1]])

series_with_permutation(A, B) ==
    CPermutation_create([j \in 1..Len(B.p) |-> A.p[B.p[j] + 1]])

\* a << b and a + b
Series2(a, b) == SeriesProduct_create(<<a, b>>)
Concat2(a, b) == Concatenation_create(<<a, b>>)

\* C.feedback() with both indices None
feedback_default(c) == feedback(c, cdim(c) - 1, cdim(c) - 1)

(* ---- get_blocks ---- *)

\* the while loop of Concatenation._get_blocks
RECURSIVE concat_blocks_while(_, _, _, _)
concat_blocks_while(block_iter, bl, cbo, current_length) ==
    IF current_length < bl
    THEN IF block_iter = <<>>
         THEN [err |-> "StopIteration", iter |-> <<>>, cbo |-> <<>>, len |-> 0]
         ELSE concat_blocks_while(Tail(block_iter), bl,
                                  Append(cbo, Head(block_iter)),
                                  current_length + cdim(Head(block_iter)))
    ELSE [err |-> "", iter |-> block_iter, cbo |-> cbo, len |-> current_length]

\* the for loop of Concatenation._get_blocks
RECURSIVE concat_blocks_for(_, _, _)
concat_blocks_for(block_iter, bs, blocks) ==
    IF bs = <<>> THEN blocks
    ELSE LET w == concat_blocks_while(block_iter, Head(bs), <<>>, 0)
         IN IF w.err # "" THEN <<Err(w.err)>>
            ELSE IF w.len # Head(bs)
                 THEN <<Err("IncompatibleBlockStructures")>>
            ELSE concat_blocks_for(w.iter, Tail(bs),
                     Append(blocks, Concatenation_create(w.cbo)))

Concatenation_get_blocks(c, bs) ==
    concat_blocks_for(
        FlattenSeq([j \in 1..Len(c.ops) |->
                       get_blocks(c.ops[j], block_structure(c.ops[j]))]),
        bs, <<>>)

\* the while loop of CPermutation._get_blocks
RECURSIVE perm_blocks_while(_, _, _)
perm_blocks_while(block_perm_iter, l, current_perm) ==
    IF Len(current_perm) < l
    THEN IF block_perm_iter = <<>>
         THEN [err |-> "StopIteration", iter |-> <<>>, perm |-> <<>>]
         ELSE perm_blocks_while(Tail(block_perm_iter), l,
                 current_perm \o
                 [j \in 1..Len(Head(block_perm_iter)) |->
                     Head(block_perm_iter)[j] + Len(current_perm)])
    ELSE [err |-> "", iter |-> block_perm_iter, perm |-> current_perm]

\* the for loop of CPermutation._get_blocks: [err, perms]
RECURSIVE perm_blocks_for(_, _, _)
perm_blocks_for(block_perm_iter, bs, out) ==
    IF bs = <<>> THEN [err |-> "", perms |-> out]
    ELSE LET w == perm_blocks_while(block_perm_iter, Head(bs), <<>>)
         IN IF w.err # "" THEN [err |-> w.err, perms |-> <<>>]
            ELSE IF Len(w.perm) # Head(bs)
                 THEN [err |-> "Exception", perms |-> <<>>]
            ELSE perm_blocks_for(w.iter, Tail(bs), Append(out, w.perm))

CPermutation_get_blocks(c, bs) ==
    IF bs = block_structure(c)
    THEN [j \in 1..Len(block_perms(c)) |->
             CPermutation_create(block_perms(c)[j])]
    ELSE IF Len(bs) > Len(block_perms(c)) THEN <<Err("Exception")>>
    ELSE IF SumSeq(bs) # cdim(c) THEN <<Err("Exception")>>
    ELSE LET r == perm_blocks_for(block_perms(c), bs, <<>>)
         IN IF r.err # "" THEN <<Err(r.err)>>
            ELSE [j \in 1..Len(r.perms) |-> CPermutation_create(r.perms[j])]

\* Circuit._get_blocks
Circuit_get_blocks(c, bs) ==
    IF bs = block_structure(c) THEN <<c>>
    ELSE <<Err("IncompatibleBlockStructures")>>

\* self._get_blocks(block_structure): the _get_blocks of each class
_get_blocks(c, bs) ==
    CASE c.k = "concat" -> Concatenation_get_blocks(c, bs)
      [] c.k = "perm" -> CPermutation_get_blocks(c, bs)
      [] OTHER -> Circuit_get_blocks(c, bs)

(* ---- the simplification pipeline of Expression.create ---- *)

NoRule == Node("none", "", 0, <<>>, <<>>, 0, 0)

\* cls.neutral_element == x
IsNeutral(cls, x) ==
    IF cls = "series" THEN x = cid(cdim(x)) ELSE x = CircuitZero

\* assoc: operands of the same class are spliced in
assoc(cls, ops) ==
    FlattenSeq([j \in 1..Len(ops) |->
                   IF ops[j].k = cls THEN ops[j].ops ELSE <<ops[j]>>])

\* the operands filter_neutral keeps
filter_neutral(cls, ops) == SelectSeq(ops, LAMBDA x : ~IsNeutral(cls, x))

\* check_cdims
check_cdims(ops) == Cardinality({cdim(ops[j]) : j \in 1..Len(ops)}) = 1

(* ---- rules of SeriesProduct ---- *)

\* _tensor_decompose_series that does not refuse a CPermutation as rhs and
\* hands back the plain nodes
_tensor_decompose_series_no_refusal(lhs, rhs) ==
    IF SumSeq(block_structure(lhs)) # SumSeq(block_structure(rhs))
        THEN Err("AlgebraError")
    ELSE LET res_struct == Circuit_method("get_common_block_structure",
                               <<block_structure(lhs), block_structure(rhs)>>)
             blocks == get_blocks(lhs, res_struct)
             oblocks == get_blocks(rhs, res_struct)
         IN IF Len(res_struct) > 1
            THEN IF AnyErr(blocks) THEN FirstErr(blocks)
                 ELSE IF AnyErr(oblocks) THEN FirstErr(oblocks)
                 ELSE Concatenation(
                        [j \in 1..Min2(Len(blocks), Len(oblocks)) |->
                            SeriesProduct(<<blocks[j], oblocks[j]>>)])
            ELSE CannotSimplify

\* _tensor_decompose_series cutting both sides at the blocks of lhs
_tensor_decompose_series_lhs_blocks(lhs, rhs) ==
    IF rhs.k = "perm" THEN CannotSimplify
    ELSE LET res_struct == block_structure(lhs)
             blocks == get_blocks(lhs, res_struct)
             oblocks == get_blocks(rhs, res_struct)
         IN IF Len(res_struct) > 1
            THEN IF AnyErr(blocks) THEN FirstErr(blocks)
                 ELSE IF AnyErr(oblocks) THEN FirstErr(oblocks)
                 ELSE Concatenation_create(
                        [j \in 1..Min2(Len(blocks), Len(oblocks)) |->
                            Series2(blocks[j], oblocks[j])])
            ELSE CannotSimplify

_tensor_decompose_series(lhs, rhs) ==
    IF rhs.k = "perm" THEN CannotSimplify
    ELSE IF SumSeq(block_structure(lhs)) # SumSeq(block_structure(rhs))
         THEN Err("AlgebraError")
    ELSE LET res_struct == Circuit_method("get_common_block_structure",
                               <<block_structure(lhs), block_structure(rhs)>>)
             blocks == get_blocks(lhs, res_struct)
             oblocks == get_blocks(rhs, res_struct)
         IN IF Len(res_struct) > 1
            THEN IF AnyErr(blocks) THEN FirstErr(blocks)
                 ELSE IF AnyErr(oblocks) THEN FirstErr(oblocks)
                 ELSE Concatenation_create(
                        [j \in 1..Min2(Len(blocks), Len(oblocks)) |->
                            Series2(blocks[j], oblocks[j])])
            ELSE CannotSimplify

\* CPermutation._factorize_for_rhs:
\* <<new_lhs_circuit, permuted_rhs_circuit, new_rhs_circuit>>
_factorize_for_rhs(self, rhs) ==
    LET bs == block_structure(rhs)
        bpw == Circuit_method("block_perm_and_perms_within_blocks",
                              <<self.p, bs>>)
        fblockp == full_block_perm(bpw.block_perm, bs)
        new_rhs_circuit == CPermutation_create(fblockp)
        within_blocks == [b \in 1..Len(bs) |->
                             CPermutation_create(bpw.perms_within_blocks[b])]
        within_perm_circuit == Concatenation_create(within_blocks)
        rhs_blocks == get_blocks(rhs, bs)
        bp_inv == invert_permutation(bpw.block_perm)
        summands == [b \in 1..Len(bp_inv) |->
                        Series2(within_blocks[bp_inv[b] + 1],
                                rhs_blocks[bp_inv[b] + 1])]
        permuted_rhs_circuit == Concatenation_create(summands)
        new_lhs_circuit ==
            Series2(Series2(self, series_inverse(within_perm_circuit)),
                    series_inverse(new_rhs_circuit))
    IN IF \E b \in 1..Len(bs) : bs[b] = 0
       THEN <<Err("ValueError")>>      \* min() of an empty image
       ELSE IF ~check_permutation(fblockp) THEN <<Err("BadPermutationError")>>
       ELSE IF AnyErr(rhs_blocks) THEN <<FirstErr(rhs_blocks)>>
       ELSE <<new_lhs_circuit, permuted_rhs_circuit, new_rhs_circuit>>

_factor_permutation_for_blocks(cperm, rhs) ==
    LET rbs == block_structure(rhs)
        f == Circuit_method("_factorize_for_rhs", <<cperm, rhs>>)
    IN IF rhs = cid(cdim(rhs)) THEN cperm
       ELSE IF Len(rbs) > 1
            THEN IF AnyErr(f) THEN FirstErr(f)
                 ELSE IF f[1] = cperm THEN CannotSimplify
                 ELSE SeriesProduct_create(f)
       ELSE CannotSimplify

\* SeriesProduct._binary_rules, tried in order; NoRule when none applies
SeriesProduct_binary_rules(A, B) ==
    LET r4 == Circuit_method("_tensor_decompose_series", <<A, B>>)
        r5 == Circuit_method("_factor_permutation_for_blocks", <<A, B>>)
    IN IF A.k = "perm" /\ B.k = "perm" THEN series_with_permutation(A, B)
       ELSE IF A.k = "slh" /\ B.k = "slh" THEN series_with_slh(A, B)
       ELSE IF r4 # CannotSimplify THEN r4
       ELSE IF A.k = "perm" /\ r5 # CannotSimplify THEN r5
       ELSE IF B.k = "inv" /\ B.ops[1] = A THEN cid(cdim(A))
       ELSE IF A.k = "inv" /\ A.ops[1] = B THEN cid(cdim(B))
       ELSE NoRule

(* ---- rules of Concatenation ---- *)

\* pattern(SeriesProduct, A__Circuit, B_CPermutation)
EndsWithPerm(c) == c.k = "series" /\ c.ops[Len(c.ops)].k = "perm"
Front(s) == SubSeq(s, 1, Len(s) - 1)
Last(s) == s[Len(s)]

\* Concatenation._binary_rules, tried in order; NoRule when none applies
Concatenation_binary_rules(A, B) ==
    IF A.k = "slh" /\ B.k = "slh" THEN concatenate_slh(A, B)
    ELSE IF A.k = "perm" /\ B.k = "perm"
         THEN CPermutation_create(concatenate_permutations(A.p, B.p))
    ELSE IF A.k = "perm" /\ B = CIdentity
         THEN CPermutation_create(concatenate_permutations(A.p, <<0>>))
    ELSE IF A = CIdentity /\ B.k = "perm"
         THEN CPermutation_create(concatenate_permutations(<<0>>, B.p))
    ELSE IF EndsWithPerm(A) /\ EndsWithPerm(B)
         THEN Series2(Concat2(SeriesProduct_create(Front(A.ops)),
                              SeriesProduct_create(Front(B.ops))),
                      Concat2(Last(A.ops), Last(B.ops)))
    ELSE IF EndsWithPerm(A)
         THEN Series2(Concat2(SeriesProduct_create(Front(A.ops)), B),
                      Concat2(Last(A.ops), cid(cdim(B))))
    ELSE IF EndsWithPerm(B)
         THEN Series2(Concat2(A, SeriesProduct_create(Front(B.ops))),
                      Concat2(cid(cdim(A)), Last(B.ops)))
    ELSE NoRule

_get_binary_replacement(cls, first, second) ==
    IF IsErr(first) THEN first
    ELSE IF IsErr(second) THEN second
    ELSE IF cls = "series" THEN SeriesProduct_binary_rules(first, second)
    ELSE Concatenation_binary_rules(first, second)

\* combine two fully reduced operand lists
match_replace_binary_combine(cls, a, b) ==
    IF Len(a) = 0 \/ Len(b) = 0 THEN a \o b
    ELSE LET r == Circuit_method("_get_binary_replacement",
                                 <<cls, Last(a), Head(b)>>)
         IN IF r = NoRule THEN a \o b
            ELSE IF IsErr(r) THEN <<r>>
            ELSE IF IsNeutral(cls, r)
                 THEN match_replace_binary_combine(cls, Front(a), Tail(b))
            ELSE match_replace_binary_combine(cls,
                    match_replace_binary_combine(cls, Front(a),
                        IF r.k = cls THEN r.ops ELSE <<r>>),
                    Tail(b))

\* reduce a list of operands by the binary rules
match_replace_binary_ops(cls, ops) ==
    IF Len(ops) <= 1 THEN ops
    ELSE match_replace_binary_combine(cls,
            match_replace_binary_ops(cls, Take(ops, Len(ops) \div 2)),
            match_replace_binary_ops(cls, Drop(ops, Len(ops) \div 2)))

\* the tail of the pipeline: match_replace_binary, filter_neutral, instance
Finish(cls, fops) ==
    LET m == Circuit_method("match_replace_binary_ops", <<cls, fops>>)
        f2 == filter_neutral(cls, m)
    IN IF AnyErr(m) THEN FirstErr(m)
       ELSE IF Len(m) = 1 THEN m[1]
       ELSE IF Len(m) = 0
            THEN (IF cls = "series" THEN cid(cdim(fops[1])) ELSE CircuitZero)
       ELSE IF Len(f2) > 1
            THEN (IF cls = "series" THEN SeriesProduct(f2)
                  ELSE Concatenation(f2))
       ELSE IF Len(f2) = 1 THEN f2[1]
       ELSE m[1]

\* SeriesProduct._simplifications: assoc, filter_neutral, check_cdims,
\* match_replace_binary, filter_neutral
SeriesProduct_simplifications(ops) ==
    LET ops1 == assoc("series", ops)
        fops == filter_neutral("series", ops1)
    IN IF AnyErr(ops) THEN FirstErr(ops)
       ELSE IF Len(ops1) = 0 THEN CircuitZero
       ELSE IF Len(fops) = 1 THEN fops[1]
       ELSE IF Len(fops) = 0 THEN ops1[1]
       ELSE IF ~check_cdims(fops) THEN Err("ValueError")
       ELSE Finish("series", fops)

\* Concatenation._simplifications: assoc, filter_neutral,
\* match_replace_binary, filter_neutral
Concatenation_simplifications(ops) ==
    LET ops1 == assoc("concat", ops)
        fops == filter_neutral("concat", ops1)
    IN IF AnyErr(ops) THEN FirstErr(ops)
       ELSE IF Len(ops1) = 0 THEN CircuitZero
       ELSE IF Len(fops) = 1 THEN fops[1]
       ELSE IF Len(fops) = 0 THEN ops1[1]
       ELSE Finish("concat", fops)

(* ---- toSLH ---- *)

\* the reduction with the operands that have no SLH form left out
RECURSIVE reduce_slh_skip_unconvertible(_, _, _)
reduce_slh_skip_unconvertible(cls, acc, rest) ==
    IF rest = <<>> THEN acc
    ELSE LET a == toSLH(acc)
             b == toSLH(Head(rest))
         IN IF IsErr(a)
            THEN reduce_slh_skip_unconvertible(cls, Head(rest), Tail(rest))
            ELSE IF IsErr(b)
            THEN reduce_slh_skip_unconvertible(cls, a, Tail(rest))
            ELSE reduce_slh_skip_unconvertible(cls,
                    IF cls = "series" THEN series_with_slh(a, b)
                    ELSE concatenate_slh(a, b),
                    Tail(rest))

RECURSIVE reduce_slh(_, _, _)
\* reduce(lambda a, b: a.toSLH().<op>(b.toSLH()), operands) after the first
reduce_slh(cls, acc, rest) ==
    IF rest = <<>> THEN acc
    ELSE LET a == toSLH(acc)
             b == toSLH(Head(rest))
         IN IF IsErr(a) THEN a
            ELSE IF IsErr(b) THEN b
            ELSE reduce_slh(cls,
                    IF cls = "series" THEN series_with_slh(a, b)
                    ELSE concatenate_slh(a, b),
                    Tail(rest))

\* self._toSLH(): the _toSLH of each class
_toSLH(c) ==
    CASE c.k = "sym" -> Err("CannotConvertToSLH")
      [] c.k = "slh" -> c
      [] c.k = "cid1" -> SLH(<<<<ROne>>>>, <<<<RZero>>>>, RZero)
      [] c.k = "zero" -> SLH(<<<<>>>>, <<<<>>>>, RZero)
      [] c.k = "series" -> reduce_slh("series", c.ops[1], Tail(c.ops))
      [] c.k = "concat" -> reduce_slh("concat", c.ops[1], Tail(c.ops))
      [] c.k = "perm" ->
            SLH(permutation_matrix(c.p), zerosm(Len(c.p), 1), RZero)
      [] c.k = "fb" ->
            (LET a == toSLH(c.ops[1])
             IN IF IsErr(a) THEN a ELSE feedback(a, c.o, c.i))
      [] c.k = "inv" ->
            (LET a == toSLH(c.ops[1])
             IN IF IsErr(a) THEN a ELSE SLH_series_inverse(a))
      [] OTHER -> c

(* ---- series_inverse ---- *)

\* SeriesInverse.create
SeriesInverse_create(c) ==
    IF c.k = "inv" THEN c.ops[1]
    ELSE IF c.k \in {"series", "concat", "fb", "slh", "perm", "cid1"}
         THEN series_inverse(c)
    ELSE SeriesInverse(c)

\* SeriesProduct._series_inverse
SeriesProduct_series_inverse(c) ==
    SeriesProduct_create(
        [j \in 1..Len(c.ops) |-> series_inverse(c.ops[Len(c.ops) + 1 - j])])

\* self._series_inverse(): the _series_inverse of each class
_series_inverse(c) ==
    CASE c.k = "err" -> c
      [] c.k = "slh" -> SLH_series_inverse(c)
      [] c.k = "cid1" -> c
      [] c.k = "series" -> SeriesProduct_series_inverse(c)
      [] c.k = "concat" ->
            Concatenation_create(
                [j \in 1..Len(c.ops) |-> series_inverse(c.ops[j])])
      [] c.k = "perm" -> CPermutation(invert_permutation(c.p))
      [] c.k = "fb" -> Feedback_create(series_inverse(c.ops[1]), c.i, c.o)
      [] OTHER -> SeriesInverse_create(c)

(* ---- feedback ---- *)

\* SLH._feedback going to the closed form without rerouting
SLH_feedback_no_rerouting(a, out_index, in_index) == SLH_feedback_last(a)

SLH_feedback(a, out_index, in_index) ==
    LET n == cdim(a) - 1
        mo == toSLH(Circuit_method("map_signals_circuit",
                                   <<Map1(out_index, n), cdim(a)>>))
        mi == toSLH(Circuit_method("map_signals_circuit",
                                   <<Map1(n, in_index), cdim(a)>>))
    IN IF out_index # n
       THEN (LET t == Series2(mo, a)
             IN IF IsErr(t) THEN t ELSE feedback(t, cdim(t) - 1, in_index))
       ELSE IF in_index # n
       THEN (LET t == Series2(a, mi)
             IN IF IsErr(t) THEN t ELSE feedback_default(t))
       ELSE SLH_feedback_last(a)

Concatenation_feedback(c, out_index, in_index) ==
    LET n == cdim(c)
        inb == Circuit_method("index_in_block", <<c, in_index>>)
        outb == Circuit_method("index_in_block", <<c, out_index>>)
        blocks == get_blocks(c, block_structure(c))
        in_block == inb.block
        out_block == outb.block
        b1 == Concatenation_create(
                  Take(blocks, IF in_block < out_block THEN out_block
                               ELSE in_block))
        b2 == Concatenation_create(
                  Drop(blocks, IF in_block < out_block THEN out_block
                               ELSE in_block))
    IN IF out_index = n - 1 /\ in_index = n - 1
       THEN Concatenation_create(
                Append(Front(c.ops), feedback_default(Last(c.ops))))
       ELSE IF inb.err # "" THEN Err(inb.err)
       ELSE IF outb.err # "" THEN Err(outb.err)
       ELSE IF in_block = out_block
       THEN Concat2(Concat2(Concatenation_create(Take(blocks, out_block)),
                            feedback(blocks[out_block + 1],
                                     outb.index, inb.index)),
                    Concatenation_create(Drop(blocks, out_block + 1)))
       ELSE IF in_block < out_block
       THEN Series2(Series2(Concat2(b1, circuit_identity(cdim(b2) - 1)),
                            Circuit_method("map_signals_circuit", <<
                                Map1(out_index - 1, in_index), n - 1>>)),
                    Concat2(circuit_identity(cdim(b1) - 1), b2))
       ELSE Series2(Series2(Concat2(circuit_identity(cdim(b1) - 1), b2),
                            Circuit_method("map_signals_circuit", <<
                                Map1(out_index, in_index - 1), n - 1>>)),
                    Concat2(b1, circuit_identity(cdim(b2) - 1)))

\* the permutation itself, where CPermutation reroutes a channel
Reroute_nothing(self, a, b, c, d) == self

\* m{a -> b} << self << m{c -> d} on n channels
Reroute(self, a, b, c, d) ==
    Series2(Series2(Circuit_method("map_signals_circuit",
                                   <<Map1(a, b), cdim(self)>>), self),
            Circuit_method("map_signals_circuit", <<Map1(c, d), cdim(self)>>))

\* the rerouted permutation with its last channel left in place
CPermutation_feedback_keep_channel(self, out_index, in_index) ==
    Reroute(self, out_index, cdim(self) - 1, cdim(self) - 1, in_index)

\* CPermutation._feedback
CPermutation_feedback(self, out_index, in_index) ==
    LET n == cdim(self)
        new_perm_circuit == Reroute(self, out_index, n - 1, n - 1, in_index)
        new_perm == new_perm_circuit.p
        n_inv == IndexOf(new_perm, n - 1)
        new_perm2 == [new_perm EXCEPT ![n_inv + 1] = new_perm[n]]
    IN IF IsErr(new_perm_circuit) THEN new_perm_circuit
       ELSE IF new_perm_circuit = circuit_identity(n)
            THEN circuit_identity(n - 1)
       ELSE CPermutation_create(Front(new_perm2))

\* CPermutation._factor_rhs returning in_index in place of in_im
_factor_rhs_returns_in_index(self, in_index) ==
    LET n == cdim(self)
        in_im == self.p[in_index + 1]
        red_self_plus_cid1 == Reroute(self, in_im, n - 1, n - 1, in_index)
    IN IF ~(0 <= in_index /\ in_index < n)
       THEN [err |-> "Exception", index |-> 0, red |-> CircuitZero]
       ELSE IF red_self_plus_cid1.k = "perm"
       THEN IF red_self_plus_cid1.p[n] # n - 1
            THEN [err |-> "AssertionError", index |-> 0, red |-> CircuitZero]
            ELSE [err |-> "", index |-> in_index,
                  red |-> CPermutation_create(Front(red_self_plus_cid1.p))]
       ELSE [err |-> "", index |-> in_index, red |-> circuit_identity(n - 1)]

\* CPermutation._factor_rhs: [err, index, red]
_factor_rhs(self, in_index) ==
    LET n == cdim(self)
        in_im == self.p[in_index + 1]
        red_self_plus_cid1 == Reroute(self, in_im, n - 1, n - 1, in_index)
    IN IF ~(0 <= in_index /\ in_index < n)
       THEN [err |-> "Exception", index |-> 0, red |-> CircuitZero]
       ELSE IF red_self_plus_cid1.k = "perm"
       THEN IF red_self_plus_cid1.p[n] # n - 1
            THEN [err |-> "AssertionError", index |-> 0, red |-> CircuitZero]
            ELSE [err |-> "", index |-> in_im,
                  red |-> CPermutation_create(Front(red_self_plus_cid1.p))]
       ELSE [err |-> "", index |-> in_im, red |-> circuit_identity(n - 1)]

\* CPermutation._factor_lhs: [err, index, red]
_factor_lhs(self, out_index) ==
    LET n == cdim(self)
        out_inv == IndexOf(self.p, out_index)
        red_self_plus_cid1 == Reroute(self, out_index, n - 1, n - 1, out_inv)
    IN IF ~(0 <= out_index /\ out_index < n)
       THEN [err |-> "AssertionError", index |-> 0, red |-> CircuitZero]
       ELSE IF red_self_plus_cid1.k = "perm"
       THEN IF red_self_plus_cid1.p[n] # n - 1
            THEN [err |-> "AssertionError", index |-> 0, red |-> CircuitZero]
            ELSE [err |-> "", index |-> out_inv,
                  red |-> CPermutation_create(Front(red_self_plus_cid1.p))]
       ELSE [err |-> "", index |-> out_inv, red |-> circuit_identity(n - 1)]

_pull_out_perm_lhs(lhs, rest, out_index, in_index) ==
    LET f == _factor_lhs(lhs, out_index)
    IN IF f.err # "" THEN Err(f.err)
       ELSE Series2(f.red,
                Feedback_create(SeriesProduct_create(rest), f.index, in_index))

_pull_out_perm_rhs(rest, rhs, out_index, in_index) ==
    LET f == _factor_rhs(rhs, in_index)
    IN IF f.err # "" THEN Err(f.err)
       ELSE Series2(
                Feedback_create(SeriesProduct_create(rest), out_index, f.index),
                f.red)

\* before, block, after and their sizes around the block of channel index
SplitAround(c, index) ==
    LET ib == Circuit_method("index_in_block", <<c, index>>)
        bs == block_structure(c)
        nbefore == SumSeq(Take(bs, ib.block))
        nblock == bs[ib.block + 1]
        nafter == SumSeq(Drop(bs, ib.block + 1))
    IN [err |-> ib.err, nbefore |-> nbefore, nblock |-> nblock,
        nafter |-> nafter,
        blocks |-> get_blocks(c, <<nbefore, nblock, nafter>>)]

_pull_out_unaffected_blocks_lhs(lhs, rest, out_index, in_index) ==
    LET sp == Circuit_method("SplitAround", <<lhs, out_index>>)
        before == sp.blocks[1]
        block == sp.blocks[2]
        after == sp.blocks[3]
        outer_lhs == Concat2(Concat2(before, cid(sp.nblock - 1)), after)
        inner_lhs == Concat2(Concat2(cid(sp.nbefore), block), cid(sp.nafter))
    IN IF sp.err # "" THEN Err(sp.err)
       ELSE IF AnyErr(sp.blocks) THEN FirstErr(sp.blocks)
       ELSE IF before # cid(sp.nbefore) \/ after # cid(sp.nafter)
       THEN Series2(outer_lhs,
                Feedback_create(SeriesProduct_create(<<inner_lhs>> \o rest),
                                out_index, in_index))
       ELSE IF block = cid(sp.nblock)
       THEN Series2(outer_lhs,
                Feedback_create(SeriesProduct_create(rest),
                                out_index, in_index))
       ELSE CannotSimplify

_pull_out_unaffected_blocks_rhs(rest, rhs, out_index, in_index) ==
    LET sp == Circuit_method("SplitAround", <<rhs, in_index>>)
        before == sp.blocks[1]
        block == sp.blocks[2]
        after == sp.blocks[3]
        outer_rhs == Concat2(Concat2(before, cid(sp.nblock - 1)), after)
        inner_rhs == Concat2(Concat2(cid(sp.nbefore), block), cid(sp.nafter))
    IN IF sp.err # "" THEN Err(sp.err)
       ELSE IF AnyErr(sp.blocks) THEN FirstErr(sp.blocks)
       ELSE IF before # cid(sp.nbefore) \/ after # cid(sp.nafter)
       THEN Series2(
                Feedback_create(SeriesProduct_create(Append(rest, inner_rhs)),
                                out_index, in_index),
                outer_rhs)
       ELSE IF block = cid(sp.nblock)
       THEN Series2(
                Feedback_create(SeriesProduct_create(rest),
                                out_index, in_index),
                outer_rhs)
       ELSE CannotSimplify

_series_feedback(series, out_index, in_index) ==
    LET series_s == series_inverse(series_inverse(series))
    IN IF IsErr(series_s) THEN series_s
       ELSE IF series_s = series THEN CannotSimplify
       ELSE feedback(series_s, out_index, in_index)

\* Feedback._rules with the signal of _series_feedback handed to the caller
\* when no rule applies
Feedback_rules_signal_escapes(A, j, k) ==
    LET r1 == _series_feedback(A, j, k)
        r2 == Circuit_method("_pull_out_perm_lhs",
                             <<Head(A.ops), Tail(A.ops), j, k>>)
        r3 == Circuit_method("_pull_out_unaffected_blocks_lhs",
                             <<Head(A.ops), Tail(A.ops), j, k>>)
        r4 == Circuit_method("_pull_out_perm_rhs",
                             <<Front(A.ops), Last(A.ops), j, k>>)
        r5 == Circuit_method("_pull_out_unaffected_blocks_rhs",
                             <<Front(A.ops), Last(A.ops), j, k>>)
    IN IF A.k # "series" THEN NoRule
       ELSE IF r1 # CannotSimplify THEN r1
       ELSE IF Head(A.ops).k = "perm" /\ r2 # CannotSimplify THEN r2
       ELSE IF Head(A.ops).k = "concat" /\ r3 # CannotSimplify THEN r3
       ELSE IF Last(A.ops).k = "perm" /\ r4 # CannotSimplify THEN r4
       ELSE IF Last(A.ops).k = "concat" /\ r5 # CannotSimplify THEN r5
       ELSE r1

\* Feedback._rules, tried in order (match_replace)
Feedback_rules(A, j, k) ==
    LET r1 == _series_feedback(A, j, k)
        r2 == Circuit_method("_pull_out_perm_lhs",
                             <<Head(A.ops), Tail(A.ops), j, k>>)
        r3 == Circuit_method("_pull_out_unaffected_blocks_lhs",
                             <<Head(A.ops), Tail(A.ops), j, k>>)
        r4 == Circuit_method("_pull_out_perm_rhs",
                             <<Front(A.ops), Last(A.ops), j, k>>)
        r5 == Circuit_method("_pull_out_unaffected_blocks_rhs",
                             <<Front(A.ops), Last(A.ops), j, k>>)
    IN IF A.k # "series" THEN NoRule
       ELSE IF r1 # CannotSimplify THEN r1
       ELSE IF Head(A.ops).k = "perm" /\ r2 # CannotSimplify THEN r2
       ELSE IF Head(A.ops).k = "concat" /\ r3 # CannotSimplify THEN r3
       ELSE IF Last(A.ops).k = "perm" /\ r4 # CannotSimplify THEN r4
       ELSE IF Last(A.ops).k = "concat" /\ r5 # CannotSimplify THEN r5
       ELSE NoRule

\* the body of Feedback.create
Feedback_create_body(circuit, out_index, in_index) ==
    LET n == cdim(circuit)
        r == Circuit_method("Feedback_rules", <<circuit, out_index, in_index>>)
    IN IF IsErr(circuit) THEN circuit
       ELSE IF n = 0 THEN Err("ValueError")
       ELSE IF n = 1 THEN Err("ValueError")
       ELSE IF circuit.k \in {"concat", "slh", "perm"}
            THEN feedback(circuit, out_index, in_index)
       ELSE IF r # NoRule THEN r
       ELSE Feedback(circuit, out_index, in_index)

\* self._feedback(out_index, in_index): the _feedback of each class
_feedback(c, out_index, in_index) ==
    CASE c.k = "err" -> c
      [] c.k = "concat" -> Concatenation_feedback(c, out_index, in_index)
      [] c.k = "perm" -> CPermutation_feedback(c, out_index, in_index)
      [] c.k = "slh" -> SLH_feedback(c, out_index, in_index)
      [] OTHER -> Feedback_create(c, out_index, in_index)

Circuit_method(name, args) ==
    CASE name = "SeriesProduct.create" -> SeriesProduct_simplifications(args[1])
      [] name = "Concatenation.create" -> Concatenation_simplifications(args[1])
      [] name = "Feedback.create" ->
            Feedback_create_body(args[1], args[2], args[3])
      [] name = "get_blocks" -> _get_blocks(args[1], args[2])
      [] name = "series_inverse" -> _series_inverse(args[1])
      [] name = "feedback" -> _feedback(args[1], args[2], args[3])
      [] name = "toSLH" -> _toSLH(args[1])
      [] name = "match_replace_binary_ops" ->
            match_replace_binary_ops(args[1], args[2])
      [] name = "_get_binary_replacement" ->
            _get_binary_replacement(args[1], args[2], args[3])
      [] name = "_tensor_decompose_series" ->
            _tensor_decompose_series(args[1], args[2])
      [] name = "_factor_permutation_for_blocks" ->
            _factor_permutation_for_blocks(args[1], args[2])
      [] name = "_factorize_for_rhs" ->
            _factorize_for_rhs(args[1], args[2])
      [] name = "Feedback_rules" ->
            Feedback_rules(args[1], args[2], args[3])
      [] name = "_pull_out_perm_lhs" ->
            _pull_out_perm_lhs(args[1], args[2], args[3], args[4])
      [] name = "_pull_out_perm_rhs" ->
            _pull_out_perm_rhs(args[1], args[2], args[3], args[4])
      [] name = "_pull_out_unaffected_blocks_lhs" ->
            _pull_out_unaffected_blocks_lhs(args[1], args[2], args[3], args[4])
      [] name = "_pull_out_unaffected_blocks_rhs" ->
            _pull_out_unaffected_blocks_rhs(args[1], args[2], args[3], args[4])
      [] name = "SplitAround" ->
            SplitAround(args[1], args[2])
      [] name = "block_structure" -> _block_structure(args[1])
      [] name = "map_signals_circuit" ->
            map_signals_circuit(args[1], args[2])
      [] name = "index_in_block" ->
            index_in_block(args[1], args[2])
      [] name = "block_perm_and_perms_within_blocks" ->
            block_perm_and_perms_within_blocks(args[1], args[2])
      [] name = "get_common_block_structure" ->
            get_common_block_structure(args[1], args[2])

\* self.creduce(): the _creduce of each class
RECURSIVE creduce(_)
creduce(c) ==
    CASE c.k = "series" ->
            SeriesProduct_create([j \in 1..Len(c.ops) |-> creduce(c.ops[j])])
      [] c.k = "concat" ->
            Concatenation_create([j \in 1..Len(c.ops) |-> creduce(c.ops[j])])
      [] c.k = "fb" -> feedback(creduce(c.ops[1]), c.o, c.i)
      [] c.k = "inv" -> series_inverse(creduce(c.ops[1]))
      [] OTHER -> c

-----------------------------------------------------------------------------
(* A client session: one circuit expression `a` is held, and every step    *)
(* calls one public operation on it, with operands and indices chosen by   *)
(* the client.  `res` is what the call returned (an "err" node if it       *)
(* raised); Keep continues the session with the result.                    *)

VARIABLES a, op, opnd, arg, res
vars == <<a, op, opnd, arg, res>>

RECURSIVE Size(_)
Size(c) == 1 + SumSeq([j \in 1..Len(c.ops) |-> Size(c.ops[j])])

Mat(M) == [r \in 1..Len(M) |-> [c \in 1..Len(M[r]) |-> <<M[r][c], 1>>]]

Symbols == {CircuitSymbol("A", n) : n \in 1..MaxCdim}
              \cup {CircuitSymbol("B", 1)}
ImageTuples == UNION {[1..n -> 0..(n - 1)] : n \in 1..MaxCdim}
PermutationCircuits == {CPermutation_create(t) : t \in {u \in ImageTuples :
                                                   check_permutation(u)}}
SLHs == {SLH(Mat(<<<<1>>>>), Mat(<<<<1>>>>), RZero),
         SLH(Mat(<<<<-1>>>>), Mat(<<<<0>>>>), ROne),
         SLH(Mat(<<<<0, 1>>, <<1, 0>>>>), Mat(<<<<1>>, <<0>>>>), RZero),
         SLH(Mat(<<<<0, 1>>, <<-1, 0>>>>), Mat(<<<<0>>, <<0>>>>), RZero),
         SLH(Mat(<<<<1, 0>>, <<0, 1>>>>), Mat(<<<<1>>, <<1>>>>), RZero)}
Identities == {circuit_identity(n) : n \in 0..MaxCdim}
Leaves == Symbols \cup PermutationCircuits \cup SLHs \cup Identities

\* SLH nodes of a held expression are the ones the client constructed
RECURSIVE SmallSLH(_)
SmallSLH(c) ==
    /\ c.k = "slh" => c \in SLHs
    /\ \A j \in 1..Len(c.ops) : SmallSLH(c.ops[j])

Indices == 0..MaxCdim
BlockStructures ==
    {bs \in UNION {[1..l -> 1..(MaxCdim + 1)] : l \in 1..3} :
        SumSeq(bs) <= MaxCdim + 1}

\* every node of the expression has at least one channel
RECURSIVE HasChannels(_)
HasChannels(c) ==
    /\ cdim(c) >= 1
    /\ \A j \in 1..Len(c.ops) : HasChannels(c.ops[j])

Keepable(c) ==
    /\ ~IsErr(c)
    /\ HasChannels(c)
    /\ cdim(c) <= MaxCdim
    /\ Size(c) <= MaxNodes
    /\ SmallSLH(c)

Init ==
    /\ a \in Leaves
    /\ op = "idle"
    /\ opnd = CircuitZero
    /\ arg = <<>>
    /\ res = <<>>

\* CircuitSymbol(..), CPermutation.create(..), SLH(..), cid(n)
Construct(l) ==
    /\ op = "idle"
    /\ a' = l
    /\ op' = "idle"
    /\ opnd' = CircuitZero
    /\ arg' = <<>>
    /\ res' = <<>>

\* a << l or l << a
SeriesOp(l, flip) ==
    /\ op = "idle"
    /\ op' = "series"
    /\ opnd' = l
    /\ arg' = <<IF flip THEN 1 ELSE 0>>
    /\ res' = <<IF flip THEN Series2(l, a) ELSE Series2(a, l)>>
    /\ UNCHANGED a

\* a + l or l + a
ConcatOp(l, flip) ==
    /\ op = "idle"
    /\ op' = "concat"
    /\ opnd' = l
    /\ arg' = <<IF flip THEN 1 ELSE 0>>
    /\ res' = <<IF flip THEN Concat2(l, a) ELSE Concat2(a, l)>>
    /\ UNCHANGED a

\* a.series_inverse()
InverseOp ==
    /\ op = "idle"
    /\ op' = "series_inverse"
    /\ opnd' = CircuitZero
    /\ arg' = <<>>
    /\ res' = <<series_inverse(a)>>
    /\ UNCHANGED a

\* a.feedback(out_index, in_index)
FeedbackOp(out_index, in_index) ==
    /\ op = "idle"
    /\ op' = "feedback"
    /\ opnd' = CircuitZero
    /\ arg' = <<out_index, in_index>>
    /\ res' = <<feedback(a, out_index, in_index)>>
    /\ UNCHANGED a

\* a.feedback()
FeedbackDefaultOp ==
    /\ op = "idle"
    /\ op' = "feedback_default"
    /\ opnd' = CircuitZero
    /\ arg' = <<>>
    /\ res' = <<feedback_default(a)>>
    /\ UNCHANGED a

\* Feedback.create(a, out_index, in_index)
FeedbackCreateOp(out_index, in_index) ==
    /\ op = "idle"
    /\ op' = "Feedback.create"
    /\ opnd' = CircuitZero
    /\ arg' = <<out_index, in_index>>
    /\ res' = <<Feedback_create(a, out_index, in_index)>>
    /\ UNCHANGED a

\* a.get_blocks(bs)
GetBlocksOp(bs) ==
    /\ op = "idle"
    /\ op' = "get_blocks"
    /\ opnd' = CircuitZero
    /\ arg' = bs
    /\ res' = get_blocks(a, bs)
    /\ UNCHANGED a

\* a.block_structure
BlockStructureOp ==
    /\ op = "idle"
    /\ op' = "block_structure"
    /\ opnd' = CircuitZero
    /\ arg' = <<>>
    /\ res' = block_structure(a)
    /\ UNCHANGED a

\* a.creduce()
CreduceOp ==
    /\ op = "idle"
    /\ op' = "creduce"
    /\ opnd' = CircuitZero
    /\ arg' = <<>>
    /\ res' = <<creduce(a)>>
    /\ UNCHANGED a

\* a.toSLH()
ToSLHOp ==
    /\ op = "idle"
    /\ op' = "toSLH"
    /\ opnd' = CircuitZero
    /\ arg' = <<>>
    /\ res' = <<toSLH(a)>>
    /\ UNCHANGED a

\* a << a.series_inverse() and a.series_inverse() << a
SeriesWithInverseOp ==
    /\ op = "idle"
    /\ op' = "series_with_inverse"
    /\ opnd' = CircuitZero
    /\ arg' = <<>>
    /\ res' = <<Series2(a, series_inverse(a)), Series2(series_inverse(a), a)>>
    /\ UNCHANGED a

\* (x << y).series_inverse() and y.series_inverse() << x.series_inverse()
\* for x, y = a, l or l, a
InverseOfSeriesOp(l, flip) ==
    LET x == IF flip THEN l ELSE a
        y == IF flip THEN a ELSE l
    IN /\ op = "idle"
       /\ cdim(a) = cdim(l)
       /\ op' = "inverse_of_series"
       /\ opnd' = l
       /\ arg' = <<IF flip THEN 1 ELSE 0>>
       /\ res' = <<series_inverse(Series2(x, y)),
                   Series2(series_inverse(y), series_inverse(x))>>
       /\ UNCHANGED a

\* continue with the circuit the last call returned
Keep ==
    /\ op \in {"series", "concat", "series_inverse", "feedback",
               "feedback_default", "Feedback.create"}
    /\ Keepable(res[1])
    /\ a' = res[1]
    /\ op' = "idle"
    /\ opnd' = CircuitZero
    /\ arg' = <<>>
    /\ res' = <<>>

\* drop the result of the last call
Discard ==
    /\ op # "idle"
    /\ op' = "idle"
    /\ opnd' = CircuitZero
    /\ arg' = <<>>
    /\ res' = <<>>
    /\ UNCHANGED a

Next ==
    \/ \E l \in Leaves : Construct(l)
    \/ \E l \in Leaves, flip \in BOOLEAN : SeriesOp(l, flip)
    \/ \E l \in Leaves, flip \in BOOLEAN : ConcatOp(l, flip)
    \/ InverseOp
    \/ \E o \in Indices, i \in Indices : FeedbackOp(o, i)
    \/ FeedbackDefaultOp
    \/ \E o \in Indices, i \in Indices : FeedbackCreateOp(o, i)
    \/ \E bs \in BlockStructures : GetBlocksOp(bs)
    \/ BlockStructureOp
    \/ ToSLHOp
    \/ CreduceOp
    \/ SeriesWithInverseOp
    \/ \E l \in Leaves, flip \in BOOLEAN : InverseOfSeriesOp(l, flip)
    \/ Keep
    \/ Discard

Spec == Init /\ [][Next]_vars

-----------------------------------------------------------------------------
(* Constructor calls: a client that holds no circuit calls a constructor   *)
(* on arguments of its choice, well-formed or not.                         *)

\* tuples of length up to MaxCdim, with values below and above the range
ImageTupleInputs == UNION {[1..n -> (-1)..n] : n \in 0..MaxCdim}

InitConstructors ==
    /\ a = CircuitZero
    /\ op = "idle"
    /\ opnd = CircuitZero
    /\ arg = <<>>
    /\ res = <<>>

\* CPermutation.create(permutation)
PermutationCreateOp(permutation) ==
    /\ op = "idle"
    /\ op' = "CPermutation.create"
    /\ arg' = permutation
    /\ res' = <<CPermutation_create(permutation)>>
    /\ UNCHANGED <<a, opnd>>

\* scattering matrices and coupling vectors with 0, 1, 2 and 3 rows
SInputs == {<<>>, Mat(<<<<-1>>>>), Mat(<<<<0>>>>),
            Mat(<<<<0, 1>>, <<1, 0>>>>), Mat(<<<<1, 0>>, <<0, 1>>>>)}
LInputs == {<<>>, Mat(<<<<1>>>>), Mat(<<<<0>>, <<1>>>>),
            Mat(<<<<1>>, <<1>>, <<0>>>>)}

\* SLH(S, L, 0)
SLHCreateOp(S, L) ==
    /\ op = "idle"
    /\ op' = "SLH"
    /\ arg' = <<S, L>>
    /\ res' = <<SLH(S, L, RZero)>>
    /\ UNCHANGED <<a, opnd>>

\* continue with the SLH the constructor returned
KeepSLH ==
    /\ op = "SLH"
    /\ ~IsErr(res[1])
    /\ a' = res[1]
    /\ op' = "idle"
    /\ opnd' = CircuitZero
    /\ arg' = <<>>
    /\ res' = <<>>

NextConstructors ==
    \/ \E t \in ImageTupleInputs : PermutationCreateOp(t)
    \/ \E S \in SInputs, L \in LInputs : SLHCreateOp(S, L)
    \/ KeepSLH
    \/ \E l \in SLHs, flip \in BOOLEAN : SeriesOp(l, flip)
    \/ \E l \in SLHs, flip \in BOOLEAN : ConcatOp(l, flip)
    \/ InverseOp
    \/ FeedbackDefaultOp
    \/ Discard

SpecConstructors == InitConstructors /\ [][NextConstructors]_vars

-----------------------------------------------------------------------------
(* Hilbert spaces: a space is its class and the labels of its local        *)
(* factors; a call returns [err |-> exception or "", value |-> result].    *)

\* TrivialSpace, FullSpace, LocalSpace('1'), LocalSpace('2') and their product
HilbertSpaces ==
    {[cls |-> "TrivialSpace", labels |-> {}],
     [cls |-> "FullSpace", labels |-> {}],
     [cls |-> "LocalSpace", labels |-> {"1"}],
     [cls |-> "LocalSpace", labels |-> {"2"}],
     [cls |-> "ProductSpace", labels |-> {"1", "2"}]}

\* self.local_factors, as the set of the labels of the factors
local_factors(self) ==
    IF self.cls = "FullSpace" THEN [err |-> "AlgebraError", value |-> {}]
    ELSE [err |-> "", value |-> self.labels]

\* HilbertSpace.isdisjoint
isdisjoint(self, other) ==
    IF other.cls = "FullSpace" THEN [err |-> "", value |-> FALSE]
    ELSE IF local_factors(self).err # ""
         THEN [err |-> local_factors(self).err, value |-> FALSE]
    ELSE [err |-> "",
          value |-> local_factors(self).value
                        \cap local_factors(other).value = {}]

-----------------------------------------------------------------------------
(* Calls of the module's functions: a client that holds no circuit calls a *)
(* function on arguments of its choice.                                    *)

\* block structures: tuples of positive integers
BlockStructureInputs ==
    {bs \in UNION {[1..l -> 1..3] : l \in 0..(MaxSum - 1)} :
        SumSeq(bs) <= MaxSum}

\* get_common_block_structure(lhs_bs, rhs_bs)
CommonBlockStructureOp(lhs_bs, rhs_bs) ==
    /\ op = "idle"
    /\ op' = "get_common_block_structure"
    /\ arg' = <<lhs_bs, rhs_bs>>
    /\ res' = <<get_common_block_structure(lhs_bs, rhs_bs)>>
    /\ UNCHANGED <<a, opnd>>

\* dicts with keys and values up to MaxCdim
MappingInputs == UNION {[K -> 0..MaxCdim] : K \in SUBSET (0..MaxCdim)}

\* map_signals(mapping, n)
MapSignalsOp(mapping, n) ==
    /\ op = "idle"
    /\ op' = "map_signals"
    /\ arg' = <<mapping, n>>
    /\ res' = <<IF map_signals(mapping, n).err # ""
                THEN Err(map_signals(mapping, n).err)
                ELSE map_signals(mapping, n).perm>>
    /\ UNCHANGED <<a, opnd>>

\* self.isdisjoint(other)
IsDisjointOp(self, other) ==
    /\ op = "idle"
    /\ op' = "isdisjoint"
    /\ arg' = <<self, other>>
    /\ res' = <<isdisjoint(self, other)>>
    /\ UNCHANGED <<a, opnd>>

\* self._factor_rhs(in_index) on a permutation circuit
FactorRhsOp(self, in_index) ==
    /\ op = "idle"
    /\ self.k = "perm"
    /\ op' = "_factor_rhs"
    /\ opnd' = self
    /\ arg' = <<in_index>>
    /\ res' = <<_factor_rhs(self, in_index)>>
    /\ UNCHANGED a

\* self._factor_lhs(out_index) on a permutation circuit
FactorLhsOp(self, out_index) ==
    /\ op = "idle"
    /\ self.k = "perm"
    /\ op' = "_factor_lhs"
    /\ opnd' = self
    /\ arg' = <<out_index>>
    /\ res' = <<_factor_lhs(self, out_index)>>
    /\ UNCHANGED a

\* the permutation circuits on up to MaxCdim + 1 channels
\* _tensor_decompose_series(lhs, rhs), called by SeriesProduct's rule
\* on operands that passed check_cdims
TensorDecomposeOp(lhs, rhs) ==
    /\ op = "idle"
    /\ cdim(lhs) = cdim(rhs)
    /\ op' = "_tensor_decompose_series"
    /\ opnd' = lhs
    /\ arg' = <<rhs>>
    /\ res' = <<Circuit_method("_tensor_decompose_series", <<lhs, rhs>>)>>
    /\ UNCHANGED a

DecomposeInputs ==
    {c \in Leaves \cup {Concat2(x, y) : x, y \in Leaves} :
        cdim(c) \in 1..MaxCdim}

FactorInputs ==
    {CPermutation_create(t) :
        t \in {u \in UNION {[1..n -> 0..(n - 1)] : n \in 1..(MaxCdim + 1)} :
                  check_permutation(u)}}

NextFunctions ==
    \/ \E self \in FactorInputs, in_index \in Indices :
           FactorRhsOp(self, in_index)
    \/ \E self \in FactorInputs, out_index \in Indices :
           FactorLhsOp(self, out_index)
    \/ \E self \in HilbertSpaces, other \in HilbertSpaces :
           IsDisjointOp(self, other)
    \/ \E lhs_bs \in BlockStructureInputs, rhs_bs \in BlockStructureInputs :
           CommonBlockStructureOp(lhs_bs, rhs_bs)
    \/ \E mapping \in MappingInputs, n \in 0..MaxCdim :
           MapSignalsOp(mapping, n)
    \/ \E lhs \in DecomposeInputs, rhs \in DecomposeInputs :
           TensorDecomposeOp(lhs, rhs)
    \/ Discard

SpecFunctions == InitConstructors /\ [][NextFunctions]_vars

-----------------------------------------------------------------------------
(* Feedback on larger circuits: the client builds a concatenation of two   *)
(* leaves, or the series product of such a concatenation with a leaf, and  *)
(* closes a feedback loop on it.                                           *)

\* the blocks of the concatenation and the other operand of the series
ReducerInputs ==
    LET BlockInputs == {CircuitSymbol("A", 1), CircuitSymbol("B", 1), cid(1)}
        OperandInputs == {CircuitSymbol("A", 2), CPermutation(<<1, 0>>)}
        ConcatenationInputs == {Concat2(x, y) : x, y \in BlockInputs}
        SeriesInputs ==
            UNION {{Series2(p, l), Series2(l, p)} :
                       p \in ConcatenationInputs, l \in OperandInputs}
    IN ConcatenationInputs \cup SeriesInputs

InitReducer ==
    /\ a \in ReducerInputs
    /\ op = "idle"
    /\ opnd = CircuitZero
    /\ arg = <<>>
    /\ res = <<>>

NextReducer ==
    \/ \E o \in 0..1, i \in 0..1 : FeedbackCreateOp(o, i)
    \/ Discard

SpecReducer == InitReducer /\ [][NextReducer]_vars

-----------------------------------------------------------------------------
(* Properties of the calls of a session.  In a state with op # "idle" the   *)
(* call op was made on the circuit a with the operand opnd and the         *)
(* arguments arg, and returned res.                                        *)

FeedbackCalls == {"feedback", "feedback_default", "Feedback.create"}

\* the indices the last feedback call was made with
OutIndex == IF op = "feedback_default" THEN cdim(a) - 1 ELSE arg[1]
InIndex == IF op = "feedback_default" THEN cdim(a) - 1 ELSE arg[2]

InRange(c, j) == j \in 0..(cdim(c) - 1)

RECURSIVE HasFeedbackNode(_)
HasFeedbackNode(c) ==
    \/ c.k = "fb"
    \/ \E j \in 1..Len(c.ops) : HasFeedbackNode(c.ops[j])

\* bs merges adjacent blocks of fine and cuts through none
IsCoarsening(bs, fine) ==
    /\ SumSeq(bs) = SumSeq(fine)
    /\ \A j \in 1..Len(bs) :
           \E m \in 0..Len(fine) : SumSeq(Take(bs, j)) = SumSeq(Take(fine, m))

\* a is the concatenation of two 1-channel circuits
TwoSingleChannels ==
    /\ a.k = "concat"
    /\ Len(a.ops) = 2
    /\ cdim(a.ops[1]) = 1
    /\ cdim(a.ops[2]) = 1

\* x and y are the same expression, or both have the same SLH form
SameCircuit(x, y) ==
    \/ x = y
    \/ ~IsErr(toSLH(x)) /\ toSLH(x) = toSLH(y)

\* C1: for every valid circuit X, both X << X.series_inverse() and
\* X.series_inverse() << X evaluate to cid(X.cdim).  (Circuits with at
\* least one channel; a result whose SLH form is that of cid(X.cdim) counts.)
C1_SeriesWithInverseIsIdentity ==
    (op = "series_with_inverse" /\ cdim(a) >= 1) =>
        /\ SameCircuit(res[1], cid(cdim(a)))
        /\ SameCircuit(res[2], cid(cdim(a)))

\* C2: for circuits A, B of equal cdim, (A << B).series_inverse() equals
\* B.series_inverse() << A.series_inverse().  (Circuits with at least one
\* channel; two results with the same SLH form count as equal.)
C2_InverseOfSeriesReverses ==
    (op = "inverse_of_series" /\ cdim(a) >= 1) => SameCircuit(res[1], res[2])

\* C3: for a circuit of cdim n >= 2 and indices in [0, n), a feedback call
\* that returns a circuit returns one of cdim n - 1, whichever branch made it.
C3_FeedbackReducesCdim ==
    (/\ op \in FeedbackCalls
     /\ cdim(a) >= 2
     /\ InRange(a, OutIndex)
     /\ InRange(a, InIndex)
     /\ ~IsErr(res[1])) => cdim(res[1]) = cdim(a) - 1

\* C3 case: a 3-channel permutation loses one channel to the loop
C3_Witness ==
    /\ op = "feedback"
    /\ a.k = "perm"
    /\ cdim(a) = 3
    /\ InRange(a, OutIndex)
    /\ InRange(a, InIndex)
    /\ res[1].k = "perm"
    /\ cdim(res[1]) = 2

\* C4: for n >= 2, cid(n).feedback() with both indices defaulted returns a
\* circuit of cdim n - 1 and does not raise.
C4_IdentityFeedbackReturns ==
    (/\ op = "feedback_default"
     /\ cdim(a) >= 2
     /\ a = cid(cdim(a))) => /\ ~IsErr(res[1])
                            /\ cdim(res[1]) = cdim(a) - 1

\* C5, as stated: for 1-channel A and B, feedback on A + B with out_index 0
\* and in_index 1 returns exactly A << B, with no Feedback node.
C5_CrossBlockFeedbackIsAB ==
    (op = "feedback" /\ TwoSingleChannels /\ arg = <<0, 1>>) =>
        /\ res[1] = SeriesProduct_create(<<a.ops[1], a.ops[2]>>)
        /\ (~HasFeedbackNode(a) => ~HasFeedbackNode(res[1]))

\* C5, amended: for 1-channel A and B, feedback on A + B with out_index 0
\* and in_index 1 returns exactly B << A, and the call adds no Feedback node.
C5_CrossBlockFeedbackIsBA ==
    (op = "feedback" /\ TwoSingleChannels /\ arg = <<0, 1>>) =>
        /\ res[1] = SeriesProduct_create(<<a.ops[2], a.ops[1]>>)
        /\ (~HasFeedbackNode(a) => ~HasFeedbackNode(res[1]))

\* C5 case: A's output fed into B's input leaves the series product B << A
C5_Witness ==
    /\ op = "feedback"
    /\ a = Concatenation(<<CircuitSymbol("A", 1), CircuitSymbol("B", 1)>>)
    /\ arg = <<0, 1>>
    /\ res[1] = SeriesProduct(<<CircuitSymbol("B", 1), CircuitSymbol("A", 1)>>)

\* C6: SLH._feedback on the last channel of an SLH whose entry S[n-1, n-1]
\* is 1 fails with an error and returns no SLH.
C6_NonInvertibleLoopFails ==
    (/\ op \in {"feedback", "feedback_default"}
     /\ a.k = "slh"
     /\ cdim(a) >= 2
     /\ OutIndex = cdim(a) - 1
     /\ InIndex = cdim(a) - 1
     /\ a.S[cdim(a)][cdim(a)] = ROne) => IsErr(res[1])

\* C7: Feedback.create raises whenever the circuit's cdim is below 2 or one
\* of the indices lies outside [0, cdim).
C7_FeedbackCreateChecksIndices ==
    (/\ op = "Feedback.create"
     /\ \/ cdim(a) < 2
        \/ ~InRange(a, arg[1])
        \/ ~InRange(a, arg[2])) => IsErr(res[1])

\* C8: SeriesProduct.create on two operands of different cdim raises, also
\* when one of them is an identity circuit cid(k).
C8_SeriesChecksCdims ==
    (op = "series" /\ cdim(a) # cdim(opnd)) => IsErr(res[1])

\* C9: the blocks get_blocks returns for a request it accepts have the
\* requested sizes in order, and their concatenation is the circuit.
C9_GetBlocksRoundTrip ==
    (/\ op = "get_blocks"
     /\ \A j \in 1..Len(res) : ~IsErr(res[j])) =>
        /\ [j \in 1..Len(res) |-> cdim(res[j])] = arg
        /\ Concatenation_create(res) = a

\* C10: get_blocks raises for every request that is not a coarsening of the
\* circuit's block structure, and never returns a block list for one.  (Any
\* exception counts, not only IncompatibleBlockStructures.)
C10_GetBlocksRejectsIncompatible ==
    (op = "get_blocks" /\ ~IsCoarsening(arg, block_structure(a))) =>
        (Len(res) = 1 /\ IsErr(res[1]))

\* C11: the block_structure of every constructible circuit is a tuple of
\* positive integers whose sum is the circuit's cdim.
C11_BlockStructurePositiveSum ==
    op = "block_structure" =>
        /\ \A j \in 1..Len(res) : res[j] >= 1
        /\ SumSeq(res) = cdim(a)

\* C12: a + b (in either order) that returns a circuit returns one whose
\* cdim is the sum of the cdims of a and b, whatever flattening, removal of
\* neutral elements and rule rewriting did to the operands.
C12_ConcatenationCdimIsSum ==
    (op = "concat" /\ ~IsErr(res[1])) =>
        cdim(res[1]) = cdim(a) + cdim(opnd)

\* C12 case: two SLH are merged into one SLH by a rule of Concatenation
C12_Witness ==
    /\ op = "concat"
    /\ a.k = "slh"
    /\ opnd.k = "slh"
    /\ res[1].k = "slh"
    /\ cdim(res[1]) = cdim(a) + cdim(opnd)

\* the image tuple of a permutation circuit; cid(n) stands for the identity
ImageTuple(c) == IF c.k = "perm" THEN c.p ELSE Range0(cdim(c))

\* the two permutation circuits of the last series call, left one first
LeftPerm == IF arg[1] = 1 THEN opnd ELSE a
RightPerm == IF arg[1] = 1 THEN a ELSE opnd

\* C13: the series product of two permutation circuits of the same size with
\* image tuples p (left) and q (right) is the permutation circuit with the
\* image tuple r, r[i] = p[q[i]], and r is a bijection on 0..n-1.
C13_PermutationSeriesComposes ==
    (/\ op = "series"
     /\ a.k = "perm"
     /\ opnd.k = "perm"
     /\ cdim(a) = cdim(opnd)) =>
        /\ res[1].k = "perm" \/ res[1] = cid(cdim(a))
        /\ ImageTuple(res[1]) =
               [j \in 1..cdim(a) |-> LeftPerm.p[RightPerm.p[j] + 1]]
        /\ check_permutation(ImageTuple(res[1]))

\* C13 case: (1,2,0) << (1,0,2) is the permutation (2,1,0)
C13_Witness ==
    /\ op = "series"
    /\ LeftPerm = CPermutation(<<1, 2, 0>>)
    /\ RightPerm = CPermutation(<<1, 0, 2>>)
    /\ res[1] = CPermutation(<<2, 1, 0>>)

\* some node of c is a CPermutation whose image tuple is the identity
RECURSIVE HasIdentityPermutationNode(_)
HasIdentityPermutationNode(c) ==
    \/ c.k = "perm" /\ c.p = Range0(Len(c.p))
    \/ \E j \in 1..Len(c.ops) : HasIdentityPermutationNode(c.ops[j])

\* C14: no circuit held or returned contains a CPermutation node with the
\* identity as image tuple, and the series product of two permutation
\* circuits that compose to the identity (a permutation with its inverse,
\* as in (1,0) << (1,0)) is cid(n).
C14_IdentityPermutationIsCid ==
    /\ ~HasIdentityPermutationNode(a)
    /\ op # "block_structure" =>
           \A j \in 1..Len(res) : ~HasIdentityPermutationNode(res[j])
    /\ (op = "series" /\ a.k = "perm" /\ opnd.k = "perm"
           /\ opnd.p = invert_permutation(a.p)) => res[1] = cid(cdim(a))
    /\ (op = "series_with_inverse" /\ a.k = "perm") =>
           res = <<cid(cdim(a)), cid(cdim(a))>>

\* C14 case: CPermutation((1,0)) << CPermutation((1,0)) is cid(2)
C14_Witness ==
    /\ op = "series"
    /\ a = CPermutation(<<1, 0>>)
    /\ opnd = CPermutation(<<1, 0>>)
    /\ res[1] = cid(2)

\* C15: CPermutation.create raises the invalid-permutation error for every
\* image tuple that is not a bijection on 0..n-1 (a repeated value, a value
\* out of range), and returns no circuit for it.
C15_CreateRejectsNonBijections ==
    (/\ op = "CPermutation.create"
     /\ {arg[j] : j \in 1..Len(arg)} # 0..(Len(arg) - 1)) =>
        res = <<Err("BadPermutationError")>>

\* C15 case: the tuple (0, 0) repeats a value and is rejected
C15_Witness ==
    /\ op = "CPermutation.create"
    /\ arg = <<0, 0>>
    /\ res = <<Err("BadPermutationError")>>

\* some node of c is a CircuitSymbol
RECURSIVE HasSymbol(_)
HasSymbol(c) ==
    \/ c.k = "sym"
    \/ \E j \in 1..Len(c.ops) : HasSymbol(c.ops[j])

\* C16: toSLH() on a circuit expression that contains a CircuitSymbol, at
\* the top or nested in an operation, raises CannotConvertToSLH and returns
\* no SLH.
C16_SymbolsDoNotConvert ==
    (op = "toSLH" /\ HasSymbol(a)) => res = <<Err("CannotConvertToSLH")>>

\* C16 case: a symbol concatenated after an SLH stops the conversion
C16_Witness ==
    /\ op = "toSLH"
    /\ a.k = "concat"
    /\ a.ops[1].k = "slh"
    /\ a.ops[2].k = "sym"
    /\ res = <<Err("CannotConvertToSLH")>>

\* The feedback problems <<circuit, out_index, in_index>> that one step of
\* the reducer on the problem <<c, out_index, in_index>> hands to a nested
\* Feedback.create or feedback call: the last-block and same-block branches
\* of Concatenation._feedback, the rerouting steps of SLH._feedback, and
\* the rule of Feedback._rules that fires on a series product.
NestedFeedbackCalls(c, out_index, in_index) ==
    LET n == cdim(c)
        inb == Circuit_method("index_in_block", <<c, in_index>>)
        outb == Circuit_method("index_in_block", <<c, out_index>>)
        blocks == get_blocks(c, block_structure(c))
        mo == toSLH(Circuit_method("map_signals_circuit",
                                   <<Map1(out_index, n - 1), n>>))
        mi == toSLH(Circuit_method("map_signals_circuit",
                                   <<Map1(n - 1, in_index), n>>))
        lhs == Head(c.ops)
        rhs == Last(c.ops)
        r1 == _series_feedback(c, out_index, in_index)
        r2 == Circuit_method("_pull_out_perm_lhs",
                             <<lhs, Tail(c.ops), out_index, in_index>>)
        r3 == Circuit_method("_pull_out_unaffected_blocks_lhs",
                             <<lhs, Tail(c.ops), out_index, in_index>>)
        r4 == Circuit_method("_pull_out_perm_rhs",
                             <<Front(c.ops), rhs, out_index, in_index>>)
        r5 == Circuit_method("_pull_out_unaffected_blocks_rhs",
                             <<Front(c.ops), rhs, out_index, in_index>>)
        fl == _factor_lhs(lhs, out_index)
        fr == _factor_rhs(rhs, in_index)
        spl == Circuit_method("SplitAround", <<lhs, out_index>>)
        spr == Circuit_method("SplitAround", <<rhs, in_index>>)
        inner(sp) == Concat2(Concat2(cid(sp.nbefore), sp.blocks[2]),
                             cid(sp.nafter))
        outside(sp) == \/ sp.blocks[1] # cid(sp.nbefore)
                       \/ sp.blocks[3] # cid(sp.nafter)
    IN CASE IsErr(c) -> {}
         [] c.k = "concat" ->
              IF out_index = n - 1 /\ in_index = n - 1
              THEN {<<Last(c.ops), cdim(Last(c.ops)) - 1,
                      cdim(Last(c.ops)) - 1>>}
              ELSE IF inb.err # "" \/ outb.err # "" THEN {}
              ELSE IF inb.block = outb.block
              THEN {<<blocks[outb.block + 1], outb.index, inb.index>>}
              ELSE {}
         [] c.k = "slh" ->
              IF out_index # n - 1
              THEN (IF IsErr(Series2(mo, c)) THEN {}
                    ELSE {<<Series2(mo, c), n - 1, in_index>>})
              ELSE IF in_index # n - 1
              THEN (IF IsErr(Series2(c, mi)) THEN {}
                    ELSE {<<Series2(c, mi), n - 1, n - 1>>})
              ELSE {}
         [] c.k = "series" /\ n >= 2 ->
              IF r1 # CannotSimplify
              THEN (IF IsErr(series_inverse(series_inverse(c))) THEN {}
                    ELSE {<<series_inverse(series_inverse(c)),
                            out_index, in_index>>})
              ELSE IF lhs.k = "perm" /\ r2 # CannotSimplify
              THEN (IF fl.err # "" THEN {}
                    ELSE {<<SeriesProduct_create(Tail(c.ops)),
                            fl.index, in_index>>})
              ELSE IF lhs.k = "concat" /\ r3 # CannotSimplify
              THEN (IF spl.err # "" \/ AnyErr(spl.blocks) THEN {}
                    ELSE IF outside(spl)
                    THEN {<<SeriesProduct_create(<<inner(spl)>>
                                                 \o Tail(c.ops)),
                            out_index, in_index>>}
                    ELSE {<<SeriesProduct_create(Tail(c.ops)),
                            out_index, in_index>>})
              ELSE IF rhs.k = "perm" /\ r4 # CannotSimplify
              THEN (IF fr.err # "" THEN {}
                    ELSE {<<SeriesProduct_create(Front(c.ops)),
                            out_index, fr.index>>})
              ELSE IF rhs.k = "concat" /\ r5 # CannotSimplify
              THEN (IF spr.err # "" \/ AnyErr(spr.blocks) THEN {}
                    ELSE IF outside(spr)
                    THEN {<<SeriesProduct_create(Append(Front(c.ops),
                                                        inner(spr))),
                            out_index, in_index>>}
                    ELSE {<<SeriesProduct_create(Front(c.ops)),
                            out_index, in_index>>})
              ELSE {}
         [] OTHER -> {}

\* C18, as stated: every feedback problem a step of the reducer hands to a
\* nested Feedback.create or feedback call is on a circuit of strictly
\* smaller cdim than the circuit of the enclosing problem.
C18_NestedCdimDecreases ==
    op \in FeedbackCalls =>
        \A nested \in NestedFeedbackCalls(a, OutIndex, InIndex) :
            cdim(nested[1]) < cdim(a)

\* C18, amended: the circuit of a nested feedback problem never has a larger
\* cdim than the circuit of the enclosing problem.  The cdim is strictly
\* smaller when Concatenation._feedback descends into a block; it is the
\* same when a rule of Feedback._rules pulls an operand out of a series
\* product and in the rerouting steps of SLH._feedback.  The indices of the
\* nested problem are channels of the nested circuit whenever the indices
\* of the enclosing problem are channels of the enclosing circuit.
C18_NestedCdimNotLarger ==
    op \in FeedbackCalls =>
        \A nested \in NestedFeedbackCalls(a, OutIndex, InIndex) :
            /\ cdim(nested[1]) <= cdim(a)
            /\ a.k = "concat" => cdim(nested[1]) < cdim(a)
            /\ a.k \in {"series", "slh"} => cdim(nested[1]) = cdim(a)
            /\ {OutIndex, InIndex} \subseteq 0..(cdim(a) - 1) =>
                   {nested[2], nested[3]} \subseteq 0..(cdim(nested[1]) - 1)

\* C18 case: a rule pulled an operand out of a series product and handed the
\* rest, a circuit of the same cdim, to the nested Feedback.create
C18_Witness ==
    /\ op \in FeedbackCalls
    /\ a.k = "series"
    /\ \E nested \in NestedFeedbackCalls(a, OutIndex, InIndex) :
           cdim(nested[1]) = cdim(a)

\* The number of nested feedback problems on the chain that starts at the
\* problem <<c, out_index, in_index>>, counted up to fuel + 1: the value
\* fuel + 1 says that the chain has not ended after fuel nested calls.
RECURSIVE ReductionSteps(_, _, _, _)
ReductionSteps(c, out_index, in_index, fuel) ==
    LET nested == NestedFeedbackCalls(c, out_index, in_index)
        next == CHOOSE x \in nested : TRUE
    IN IF nested = {} THEN 0
       ELSE IF fuel = 0 THEN 1
       ELSE 1 + ReductionSteps(next[1], next[2], next[3], fuel - 1)

\* C17: a feedback call on a circuit with at least two channels, with both
\* indices among its channels, ends after finitely many nested feedback
\* problems (no more than the circuit has expression nodes and channels)
\* and returns a circuit: the reduced one or an unreduced Feedback node.
C17_FeedbackReductionTerminates ==
    (/\ op \in FeedbackCalls
     /\ cdim(a) >= 2
     /\ {OutIndex, InIndex} \subseteq 0..(cdim(a) - 1)) =>
        /\ ReductionSteps(a, OutIndex, InIndex, Size(a) + cdim(a))
               <= Size(a) + cdim(a)
        /\ ~IsErr(res[1])

\* the CannotSimplify signal is c or a node of c
RECURSIVE HasSignal(_)
HasSignal(c) ==
    \/ c = CannotSimplify
    \/ \E j \in 1..Len(c.ops) : HasSignal(c.ops[j])

\* C19: no public operation (<<, +, feedback, Feedback.create,
\* series_inverse, creduce, get_blocks, toSLH) hands the CannotSimplify
\* signal to its caller, as the result or inside it: a rule that raises it
\* is passed over and the expression stays unreduced.
C19_SignalNeverEscapes ==
    op \notin {"idle", "block_structure"} =>
        \A j \in 1..Len(res) : ~HasSignal(res[j])

\* C19 case: _series_feedback raises CannotSimplify on a series product, no
\* other rule of Feedback._rules applies, and the caller gets the unreduced
\* Feedback node
C19_Witness ==
    /\ op = "Feedback.create"
    /\ a.k = "series"
    /\ _series_feedback(a, arg[1], arg[2]) = CannotSimplify
    /\ res = <<Feedback(a, arg[1], arg[2])>>

\* every SLH node of c has as many rows in S as in L
RECURSIVE AlignedSLH(_)
AlignedSLH(c) ==
    /\ c.k = "slh" => Rows(c.S) = Rows(c.L) /\ cdim(c) = Rows(c.S)
    /\ \A j \in 1..Len(c.ops) : AlignedSLH(c.ops[j])

\* the circuit c is an SLH with n rows in S and in L
IsSLHOfCdim(c, n) == c.k = "slh" /\ Rows(c.S) = n /\ Rows(c.L) = n

\* C20: every SLH held or returned has rows(S) = rows(L) = cdim.  The
\* constructor raises ValueError when S and L differ in their row counts
\* and builds the SLH otherwise; the series product of two SLH of n
\* channels and the series inverse of one have n rows, their concatenation
\* has the sum of the rows, and the feedback on the last channel has one row
\* less.
C20_SLHRowsAreCdim ==
    /\ AlignedSLH(a)
    /\ op # "CPermutation.create" =>
           \A j \in 1..Len(res) : IsErr(res[j]) \/ AlignedSLH(res[j])
    /\ op = "SLH" =>
           IF Rows(arg[1]) # Rows(arg[2])
           THEN res = <<Err("ValueError")>>
           ELSE IsSLHOfCdim(res[1], Rows(arg[1]))
    /\ (op = "series" /\ a.k = "slh" /\ cdim(a) = cdim(opnd)) =>
           IsSLHOfCdim(res[1], cdim(a))
    /\ (op = "concat" /\ a.k = "slh") =>
           IsSLHOfCdim(res[1], Rows(a.L) + Rows(opnd.L))
    /\ (op = "series_inverse" /\ a.k = "slh") =>
           IsSLHOfCdim(res[1], cdim(a))
    /\ (op = "feedback_default" /\ a.k = "slh" /\ cdim(a) >= 1) =>
           IsSLHOfCdim(res[1], cdim(a) - 1)

\* C20 case: the feedback on the last of the two channels of an SLH that the
\* constructor built is an SLH with one row in S and in L
C20_Witness ==
    /\ op = "feedback_default"
    /\ a.k = "slh"
    /\ Rows(a.S) = 2
    /\ IsSLHOfCdim(res[1], 1)

\* the block boundaries of a block structure: its prefix sums
Boundaries(bs) == {SumSeq(Take(bs, l)) : l \in 0..Len(bs)}

\* C21: for block structures aa, bb of positive integers,
\* get_common_block_structure raises AlgebraError when their sums differ;
\* otherwise it returns a tuple r of positive integers with the same sum
\* whose block boundaries are exactly the boundaries aa and bb share.
C21_FinestCommonCoarsening ==
    op = "get_common_block_structure" =>
        IF SumSeq(arg[1]) # SumSeq(arg[2])
        THEN res = <<Err("AlgebraError")>>
        ELSE /\ \A j \in 1..Len(res[1]) : res[1][j] >= 1
             /\ SumSeq(res[1]) = SumSeq(arg[1])
             /\ Boundaries(res[1])
                    = Boundaries(arg[1]) \cap Boundaries(arg[2])

\* C21 case: (1, 1, 2, 1), (2, 1, 2) -> (2, 3)
C21_Witness ==
    /\ op = "get_common_block_structure"
    /\ arg = <<(<<1, 1, 2, 1>>), (<<2, 1, 2>>)>>
    /\ res = <<(<<2, 3>>)>>

\* C22: map_signals(mapping, n) raises ValueError when a key or a value of
\* the mapping is n or larger or two keys have the same value; otherwise it
\* returns a bijection perm on 0..n-1 with perm[k] = mapping[k] for every
\* key k, and the images of the other indices increase with the index.
C22_MapSignalsKeepsOrder ==
    op = "map_signals" =>
        LET mapping == arg[1]
            n == arg[2]
            K == DOMAIN mapping
            perm == res[1]
        IN IF \/ \E k \in K : k >= n \/ mapping[k] >= n
              \/ \E k, l \in K : k # l /\ mapping[k] = mapping[l]
           THEN res = <<Err("ValueError")>>
           ELSE /\ Len(perm) = n
                /\ check_permutation(perm)
                /\ \A k \in K : perm[k + 1] = mapping[k]
                /\ \A x, y \in (0..(n - 1)) \ K :
                       x < y => perm[x + 1] < perm[y + 1]

\* C22 case: {1: 0} on 3 channels is (1, 0, 2): the unmapped indices 0 and 2
\* get the free values 1 and 2 in this order
C22_Witness ==
    /\ op = "map_signals"
    /\ arg = <<Map1(1, 0), 3>>
    /\ res = <<(<<1, 0, 2>>)>>

\* C23: isdisjoint raises for no pair of spaces; it returns False when one
\* of the two spaces is FullSpace, and True when one of them is TrivialSpace
\* and neither is FullSpace.
C23_IsDisjointAsDocumented ==
    op = "isdisjoint" =>
        LET full == "FullSpace" \in {arg[1].cls, arg[2].cls}
            trivial == "TrivialSpace" \in {arg[1].cls, arg[2].cls}
        IN /\ res[1].err = ""
           /\ full => ~res[1].value
           /\ (trivial /\ ~full) => res[1].value

\* the rerouted permutation of the last _factor_rhs or _factor_lhs call
FactorRerouted ==
    LET n == cdim(opnd)
    IN IF op = "_factor_rhs"
       THEN Reroute(opnd, opnd.p[arg[1] + 1], n - 1, n - 1, arg[1])
       ELSE Reroute(opnd, arg[1], n - 1, n - 1, IndexOf(opnd.p, arg[1]))

\* C24: for a permutation circuit on n channels and an index among its
\* channels, the rerouted permutation of _factor_rhs and of _factor_lhs maps
\* the channel n - 1 to itself, the call raises nothing, and red_self is a
\* permutation circuit with a valid image tuple on n - 1 channels or
\* cid(n - 1).
C24_FactorAssertionHolds ==
    (op \in {"_factor_rhs", "_factor_lhs"} /\ arg[1] < cdim(opnd)) =>
        /\ ImageTuple(FactorRerouted)[cdim(opnd)] = cdim(opnd) - 1
        /\ res[1].err = ""
        /\ \/ res[1].red = cid(cdim(opnd) - 1)
           \/ /\ res[1].red.k = "perm"
              /\ Len(res[1].red.p) = cdim(opnd) - 1
              /\ check_permutation(res[1].red.p)

\* C24 case: (1, 2, 0)._factor_rhs(0) reroutes to (1, 0, 2) and returns the
\* permutation circuit (1, 0)
C24_Witness ==
    /\ op = "_factor_rhs"
    /\ opnd = CPermutation(<<1, 2, 0>>)
    /\ arg = <<0>>
    /\ FactorRerouted = CPermutation(<<1, 0, 2>>)
    /\ res[1].red = CPermutation(<<1, 0>>)

\* the image tuple of p << q
ComposeTuples(p, q) == [j \in 1..Len(q) |-> p[q[j] + 1]]

\* C25: the values of _factor_rhs solve its equation (I): in_im is
\* self.permutation[in_index], and self << m{(n-1) -> in_index} and
\* m{(n-1) -> in_im} << (red_self + cid(1)) have the same image tuple.  So
\* do, for _factor_lhs with out_inv the preimage of out_index,
\* m{out_index -> (n-1)} << self and (red_self + cid(1)) << m{out_inv -> (n-1)}.
C25_FactorSolvesEquation ==
    (op \in {"_factor_rhs", "_factor_lhs"} /\ arg[1] < cdim(opnd)) =>
        LET n == cdim(opnd)
            index == res[1].index
            red_plus_cid1 == ImageTuple(res[1].red) \o <<n - 1>>
            m(k, l) == map_signals(Map1(k, l), n).perm
        IN IF op = "_factor_rhs"
           THEN /\ index = opnd.p[arg[1] + 1]
                /\ ComposeTuples(opnd.p, m(n - 1, arg[1]))
                       = ComposeTuples(m(n - 1, index), red_plus_cid1)
           ELSE /\ opnd.p[index + 1] = arg[1]
                /\ ComposeTuples(m(arg[1], n - 1), opnd.p)
                       = ComposeTuples(red_plus_cid1, m(index, n - 1))

\* C25 case: (0, 2, 1)._factor_lhs(0) returns out_inv = 0 and the
\* permutation circuit (1, 0)
C25_Witness ==
    /\ op = "_factor_lhs"
    /\ opnd = CPermutation(<<0, 2, 1>>)
    /\ arg = <<0>>
    /\ res[1].index = 0
    /\ res[1].red = CPermutation(<<1, 0>>)

\* the image tuple of m{out_index -> n-1} << sigma << m{n-1 -> in_index}
ReroutedTuple(sigma, out_index, in_index) ==
    LET n == Len(sigma)
    IN ComposeTuples(
           ComposeTuples(map_signals(Map1(out_index, n - 1), n).perm, sigma),
           map_signals(Map1(n - 1, in_index), n).perm)

\* C26: the feedback of a permutation circuit sigma on n channels, with both
\* indices among its channels, is cid(n - 1) when the rerouted permutation
\* is the identity; otherwise it is the circuit of the rerouted tuple with
\* the entry n - 1 replaced by the image of n - 1 and the last entry
\* dropped.  The result is cid(n - 1) or a permutation circuit with a valid
\* image tuple on n - 1 channels.
C26_PermutationFeedback ==
    (/\ op \in FeedbackCalls
     /\ a.k = "perm"
     /\ {OutIndex, InIndex} \subseteq 0..(cdim(a) - 1)) =>
        LET n == cdim(a)
            r == ReroutedTuple(a.p, OutIndex, InIndex)
            dropped == [j \in 1..(n - 1) |->
                           IF r[j] = n - 1 THEN r[n] ELSE r[j]]
        IN /\ res[1] = IF r = Range0(n) \/ dropped = Range0(n - 1)
                       THEN cid(n - 1)
                       ELSE CPermutation(dropped)
           /\ \/ res[1] = cid(n - 1)
              \/ /\ res[1].k = "perm"
                 /\ Len(res[1].p) = n - 1
                 /\ check_permutation(res[1].p)

\* C26 case: a loop on a 3-channel permutation that is not routed straight
\* through leaves a permutation circuit on 2 channels
C26_Witness ==
    /\ op = "feedback"
    /\ a.k = "perm"
    /\ cdim(a) = 3
    /\ ReroutedTuple(a.p, arg[1], arg[2])[3] # 2
    /\ res[1] = CPermutation(<<1, 0>>)

\* the zero-based block of block structure bs that holds channel ch
BlockOf(bs, ch) ==
    CHOOSE b \in 0..(Len(bs) - 1) :
        /\ SumSeq(Take(bs, b)) <= ch
        /\ ch < SumSeq(Take(bs, b + 1))

\* a feedback call on a concatenation whose two channels lie in one block
SameBlockCall ==
    /\ op = "feedback"
    /\ a.k = "concat"
    /\ arg[1] \in 0..(cdim(a) - 1)
    /\ arg[2] \in 0..(cdim(a) - 1)
    /\ BlockOf(block_structure(a), arg[1])
           = BlockOf(block_structure(a), arg[2])

CommonBlockCount(lhs, rhs) ==
    Cardinality(Boundaries(block_structure(lhs))
                   \cap Boundaries(block_structure(rhs))) - 1

\* C28: _tensor_decompose_series(lhs, rhs) returns the concatenation of
\* lb_i << rb_i over the blocks of lhs and rhs at their common block
\* structure exactly when that structure has more than one block and rhs is
\* no CPermutation, and the result then has the cdim of lhs; in every other
\* case it raises CannotSimplify.
C28_TensorDecomposeSeries ==
    op = "_tensor_decompose_series" =>
        LET lhs == opnd
            rhs == arg[1]
            cs == get_common_block_structure(block_structure(lhs),
                                             block_structure(rhs))
            lb == get_blocks(lhs, cs)
            rb == get_blocks(rhs, cs)
        IN IF CommonBlockCount(lhs, rhs) > 1 /\ rhs.k # "perm"
           THEN /\ Len(lb) = CommonBlockCount(lhs, rhs)
                /\ Len(rb) = Len(lb)
                /\ res[1] = Concatenation_create(
                                [j \in 1..Len(lb) |-> Series2(lb[j], rb[j])])
                /\ ~IsErr(res[1])
                /\ cdim(res[1]) = cdim(lhs)
           ELSE res[1] = CannotSimplify

\* (A1 + A2) << (B1 + A2) is decomposed into (A1 << B1) + (A2 << A2)
C28_Witness ==
    /\ op = "_tensor_decompose_series"
    /\ block_structure(opnd) = <<1, 2>>
    /\ block_structure(arg[1]) = <<1, 2>>
    /\ arg[1].k = "concat"
    /\ res[1].k = "concat"
    /\ Len(res[1].ops) = 2
    /\ res[1].ops[2].k = "series"

\* the operands of the last a << l, l << a, a + l or l + a, in their order
CreateOperands == IF arg[1] = 1 THEN <<opnd, a>> ELSE <<a, opnd>>

\* the circuit is unchanged when its class's create runs on its operands
IsFixedPoint(c) ==
    /\ c.k = "series" => SeriesProduct_create(c.ops) = c
    /\ c.k = "concat" => Concatenation_create(c.ops) = c

\* C29: SeriesProduct.create and Concatenation.create return for every
\* operand list, and what they return is a fixed point of the rewriting: a
\* concatenation with an operand A << P comes back as a series that still
\* ends with a CPermutation, because _tensor_decompose_series refuses a
\* CPermutation as rhs and _factor_permutation_for_blocks refuses when the
\* residual permutation is the original one.
C29_CreateReachesFixedPoint ==
    op \in {"series", "concat"} =>
        LET lhs == CreateOperands[1]
            rhs == CreateOperands[2]
            f == _factorize_for_rhs(lhs, rhs)
        IN /\ IsFixedPoint(res[1])
           /\ (op = "series" /\ rhs.k = "perm" /\ cdim(lhs) = cdim(rhs))
                 => _tensor_decompose_series(lhs, rhs) = CannotSimplify
           /\ (op = "series" /\ lhs.k = "perm" /\ cdim(lhs) = cdim(rhs)
                  /\ Len(block_structure(rhs)) > 1 /\ rhs # cid(cdim(rhs))
                  /\ ~AnyErr(f) /\ f[1] = lhs)
                 => _factor_permutation_for_blocks(lhs, rhs) = CannotSimplify
           /\ (op = "concat" /\ (EndsWithPerm(lhs) \/ EndsWithPerm(rhs))
                  /\ ~IsErr(res[1]))
                 => \/ EndsWithPerm(res[1])
                    \/ res[1].k \in {"perm", "cid1"}

\* (A << P) + C with P a CPermutation comes back as (A + C) << (P + cid)
C29_Witness ==
    /\ op = "concat"
    /\ arg = <<0>>
    /\ EndsWithPerm(a)
    /\ opnd.k = "sym"
    /\ EndsWithPerm(res[1])
    /\ res[1].ops[1].k = "concat"
    /\ IsFixedPoint(res[1])

\* the calls <<circuit, out_index, in_index>> one feedback call goes through,
\* the call itself first, followed for at most fuel nested calls
RECURSIVE FeedbackChain(_, _, _, _)
FeedbackChain(c, out_index, in_index, fuel) ==
    LET nested == NestedFeedbackCalls(c, out_index, in_index)
        next == CHOOSE x \in nested : TRUE
    IN IF nested = {} \/ fuel = 0 THEN <<<<c, out_index, in_index>>>>
       ELSE <<<<c, out_index, in_index>>>>
                \o FeedbackChain(next[1], next[2], next[3], fuel - 1)

\* a feedback call on an SLH with both indices among its channels
SLHFeedbackCall ==
    /\ op = "feedback"
    /\ a.k = "slh"
    /\ arg[1] \in 0..(cdim(a) - 1)
    /\ arg[2] \in 0..(cdim(a) - 1)

====
